---- MODULE Spec2Model ----
(***************************************************************************)
(* Verification model of the campaign-intelligence chat core:             *)
(*   - the filter model (lib/filters: mergeFilters, matchesFilters),      *)
(*   - the tool layer (lib/chat-tools, lib/query-executor),               *)
(*   - the agentic orchestration loop (app/api/chat/route.ts POST).       *)
(*                                                                         *)
(* Encoding conventions                                                    *)
(*   An optional JavaScript value (a property that may be undefined, or a  *)
(*   value that may be null) is a sequence of length 0 or 1: Absent is     *)
(*   <<>> and Some(v) is <<v>>.  A list is a sequence.  A nullable string  *)
(*   column of a campaign holds the marker Null when it is null.  A date   *)
(*   is the ordinal of a YYYY-MM-DD string (the code compares the strings, *)
(*   which orders them chronologically); 0 stands for a falsy date         *)
(*   (null, undefined or the empty string).                                *)
(***************************************************************************)
EXTENDS Integers, Sequences, FiniteSets, TLC

VARIABLES
    pc,               \* position of the operation under way
    baseFilters,      \* mergeFilters' first argument / the request's activeFilters
    newFilters,       \* mergeFilters' second argument
    merged,           \* value returned by mergeFilters
    campaign,         \* matchesFilters' first argument
    filters,          \* matchesFilters' second argument
    matched,          \* value returned by matchesFilters
    body,             \* the chat request's body
    apiKeySet,        \* whether OPENAI_API_KEY is configured
    messages,         \* the conversation buffer
    i,                \* the loop's iteration variable
    msg,              \* outcome of the latest chat.completions.create call
    k,                \* index of the next invocation of msg.tool_calls to execute
    finalAnswer,
    lastToolResult,
    detectedFilters,
    response,         \* the HTTP response, once sent
    llmCalls,         \* number of chat.completions.create calls made so far
    toolRuns,         \* number of tool invocations processed so far
    toolCall,         \* one tool invocation: name, arguments and the store it runs against
    toolOut,          \* what the invocation's runner returned or threw
    campaignList,     \* buildToolResult's argument
    built,            \* value returned by buildToolResult
    imageGroups,      \* ingestion: the campaign groups still to process
    analysis,         \* ingestion: whether analyzeImage returned for the group under way
    campaignId,       \* ingestion: campaign.id of the row inserted for the group under way
    campaignsTable,   \* ingestion: the rows of table campaigns
    campaign_vectors, \* ingestion: the rows of table campaign_vectors
    results,          \* ingestion: the outcome recorded for each processed group
    requests,         \* two chat requests in flight: the locals of each POST call
    openai,           \* route.ts' module-level client, shared by every request
    supabase,         \* the campaign store the requests read
    activeFilters,    \* page: the filters shown in the filter panel
    isLoading,        \* page: a query is being processed
    llmResponse,      \* page: the text of the latest response
    chatMessages,     \* chat panel: the conversation shown
    pending,          \* page: the fetch calls sent and not yet settled
    sent              \* page: number of messages submitted so far

filterVars == <<newFilters, merged, campaign, filters, matched>>

loopVars ==
    <<body, apiKeySet, messages, i, msg, k, finalAnswer, lastToolResult,
      detectedFilters, response, llmCalls, toolRuns>>

toolVars == <<toolCall, toolOut, campaignList, built>>

ingestVars == <<imageGroups, analysis, campaignId, campaignsTable, campaign_vectors, results>>

pairVars == <<requests, openai, supabase>>

uiVars == <<activeFilters, isLoading, llmResponse, chatMessages, pending, sent>>

vars == <<pc, baseFilters, filterVars, loopVars, toolVars, ingestVars, pairVars, uiVars>>

----------------------------------------------------------------------------
(* Optional values *)

Absent == <<>>
Some(v) == <<v>>
IsPresent(o) == Len(o) = 1
Val(o) == o[1]
Null == "null"

----------------------------------------------------------------------------
(* Filter model: ActiveFilters *)

ListFields == {"channel", "value_prop", "sentiment", "visual_style"}

EmptyFilters ==
    [channel |-> Absent, value_prop |-> Absent, sentiment |-> Absent,
     visual_style |-> Absent, date_range |-> Absent]

\* `x && x.length > 0` / `x?.length`: the list is defined and not empty
NonEmptyList(o) == IsPresent(o) /\ Len(Val(o)) > 0

\* faulty variant: a field the overlay leaves undefined is not carried over from base
OverlayListNoCarry(old, new) ==
    IF IsPresent(new) /\ Len(Val(new)) > 0 THEN new ELSE Absent

\* lines 153-164: a list field the overlay defines replaces base's; an empty
\* list becomes undefined
OverlayList(old, new) ==
    IF IsPresent(new)
    THEN (IF Len(Val(new)) > 0 THEN new ELSE Absent)
    ELSE old

\* lines 165-167: date_range is replaced whenever the overlay defines it
OverlayRange(old, new) == IF IsPresent(new) THEN new ELSE old

\* faulty variant: the clean-up pass deletes every list key
CleanListAll(o) == Absent

\* lines 170-175: delete keys whose value is undefined or an empty array
CleanList(o) == IF NonEmptyList(o) THEN o ELSE Absent

mergeFilters(base, new) ==
    [channel      |-> CleanList(OverlayList(base.channel, new.channel)),
     value_prop   |-> CleanList(OverlayList(base.value_prop, new.value_prop)),
     sentiment    |-> CleanList(OverlayList(base.sentiment, new.sentiment)),
     visual_style |-> CleanList(OverlayList(base.visual_style, new.visual_style)),
     date_range   |-> OverlayRange(base.date_range, new.date_range)]

\* faulty variant: only the first entry of the list is compared
IncludesFirst(list, v) == Len(list) > 0 /\ list[1] = v

Includes(list, v) == \E j \in 1..Len(list) : list[j] = v

matchesFilters(c, f) ==
    /\ NonEmptyList(f.channel) =>
          (c.channel # Null /\ Includes(Val(f.channel), c.channel))
    /\ NonEmptyList(f.value_prop) =>
          LET campaignValueProps ==
                  IF IsPresent(c.key_value_props) THEN Val(c.key_value_props) ELSE <<>>
          IN \E j \in 1..Len(Val(f.value_prop)) :
                  Includes(campaignValueProps, Val(f.value_prop)[j])
    /\ NonEmptyList(f.sentiment) =>
          (c.imagery_sentiment # Null
             /\ Includes(Val(f.sentiment), c.imagery_sentiment))
    /\ NonEmptyList(f.visual_style) =>
          (c.imagery_visual_style # Null
             /\ Includes(Val(f.visual_style), c.imagery_visual_style))
    /\ IsPresent(f.date_range) =>
          LET campaignDate == c.capture_date
              r == Val(f.date_range)
          IN campaignDate # 0 =>
                /\ ~(r.start # 0 /\ campaignDate < r.start)
                /\ ~(r.end # 0 /\ campaignDate > r.end)

----------------------------------------------------------------------------
(* Input domains of the filter model *)

MaxDate == 3

ChannelLists == {Absent, Some(<<>>), Some(<<"instagram">>), Some(<<"facebook", "email">>)}
ValuePropLists == {Absent, Some(<<>>), Some(<<"Travel Benefits", "Cash Back / Rewards">>)}
SentimentLists == {Absent, Some(<<>>), Some(<<"Premium">>)}
VisualStyleLists == {Absent, Some(<<"Illustration">>)}
DateRanges ==
    {Absent, Some([start |-> 0, end |-> 0]), Some([start |-> 2, end |-> 0]),
     Some([start |-> 0, end |-> 2]), Some([start |-> 1, end |-> 2])}

FilterSets ==
    [channel : ChannelLists, value_prop : ValuePropLists, sentiment : SentimentLists,
     visual_style : VisualStyleLists, date_range : DateRanges]

CampaignRows ==
    [channel : {Null, "instagram", "email"},
     key_value_props : {Absent, Some(<<"Cash Back / Rewards">>), Some(<<"Credit Building">>)},
     imagery_sentiment : {Null, "Premium"},
     imagery_visual_style : {Null, "Illustration"},
     capture_date : 0..MaxDate]

NoCampaign ==
    [channel |-> Null, key_value_props |-> Absent, imagery_sentiment |-> Null,
     imagery_visual_style |-> Null, capture_date |-> 0]

----------------------------------------------------------------------------
(* The store: the campaigns table and what its search functions answer for  *)
(* the request's query text.  Every core operation only reads it.           *)

Store ==
    << [id |-> 1, company |-> "Acme", brand |-> "Gold", channel |-> "instagram",
        offer |-> "5% back", key_value_props |-> Some(<<"Cash Back / Rewards">>),
        imagery_sentiment |-> "Premium", imagery_visual_style |-> "Illustration",
        capture_date |-> 2, campaign_text |-> "Earn more", full_campaign_text |-> Null],
       [id |-> 2, company |-> Null, brand |-> Null, channel |-> "instagram",
        offer |-> Null, key_value_props |-> Absent,
        imagery_sentiment |-> Null, imagery_visual_style |-> Null,
        capture_date |-> 0, campaign_text |-> Null, full_campaign_text |-> Null],
       [id |-> 3, company |-> "Bolt", brand |-> Null, channel |-> "email",
        offer |-> " ", key_value_props |-> Some(<<"Travel Benefits">>),
        imagery_sentiment |-> "Urgent", imagery_visual_style |-> "Text-Heavy",
        capture_date |-> 3, campaign_text |-> "Fly", full_campaign_text |-> "Fly back home"] >>

\* the largest store of the model: more rows than the store's caps of 50 and 20
MaxStoreRows == 52

\* a store of MaxStoreRows campaigns, the three rows of Store repeated under
\* fresh ids
LargeStore ==
    [n \in 1..MaxStoreRows |-> [Store[((n - 1) % 3) + 1] EXCEPT !.id = n]]

\* cosine similarity, in percent, of each campaign's embeddings to the embedded
\* query; -1 where the embedding is null
Similarity ==
    [id \in 1..MaxStoreRows |->
        CASE id % 3 = 1 ->
               [value_prop_embedding |-> 80, copy_embedding |-> 60, visual_embedding |-> -1]
          [] id % 3 = 2 ->
               [value_prop_embedding |-> -1, copy_embedding |-> 75, visual_embedding |-> 71]
          [] id % 3 = 0 ->
               [value_prop_embedding |-> 90, copy_embedding |-> 90, visual_embedding |-> 40]]

\* ts_rank of each campaign's copy for the query; 0 where the copy does not match
TextRank == [id \in 1..MaxStoreRows |-> IF id % 3 = 0 THEN 2 ELSE 0]

\* offers that contain the query as a case-insensitive substring
ILikeOffer(offer, query) == <<offer, query>> \in {<<"5% back", "back">>, <<"5% back", "BACK">>}

\* faulty variant: the offer is compared without trimming it
OnlyEmptyString == {""}

\* strings that String(x).trim() turns into ''
BlankStrings == {"", " ", "  "}

Min(a, b) == IF a < b THEN a ELSE b

\* faulty variant: the slice is one entry short
LimitShort(rows, n) == SubSeq(rows, 1, Min(n - 1, Len(rows)))

Limit(rows, n) == SubSeq(rows, 1, Min(n, Len(rows)))

\* rows ordered by descending key[row.id] (stable)
RECURSIVE InsertDesc(_, _, _)
InsertDesc(sorted, row, key) ==
    IF sorted = <<>> THEN <<row>>
    ELSE IF key[row.id] > key[Head(sorted).id] THEN <<row>> \o sorted
    ELSE <<Head(sorted)>> \o InsertDesc(Tail(sorted), row, key)

RECURSIVE OrderDesc(_, _)
OrderDesc(rows, key) ==
    IF rows = <<>> THEN <<>>
    ELSE InsertDesc(OrderDesc(SubSeq(rows, 1, Len(rows) - 1), key), rows[Len(rows)], key)

\* PostgREST / SQL comparison of a nullable column: null satisfies no condition
SqlIn(col, list) == col # Null /\ Includes(list, col)
SqlOverlaps(col, list) ==
    IsPresent(col) /\ \E j \in 1..Len(list) : Includes(Val(col), list[j])
SqlGte(col, bound) == col # 0 /\ col >= bound
SqlLte(col, bound) == col # 0 /\ col <= bound

----------------------------------------------------------------------------
(* Tool layer: lib/chat-tools and lib/query-executor *)

MAX_SUMMARY_CAMPAIGNS == 20

RECURSIVE Join(_, _)
Join(parts, sep) ==
    IF Len(parts) = 0 THEN ""
    ELSE IF Len(parts) = 1 THEN parts[1]
    ELSE parts[1] \o sep \o Join(Tail(parts), sep)

\* [a, b, ...].filter(Boolean): the entries that are neither null nor ''
Truthy(strings) == SelectSeq(strings, LAMBDA x : x # Null /\ x # "")

\* one summary line (chat-tools lines 403-418); the copy snippet is cut at
\* MAX_SUMMARY_LINE_LENGTH characters, which no copy of the store exceeds
SummaryLine(c, idx) ==
    LET textSnippet == Join(Truthy(<<c.campaign_text, c.full_campaign_text>>), " ")
        parts ==
          << "Campaign " \o ToString(idx) \o ": "
                \o (IF c.company # Null /\ c.company # "" THEN c.company ELSE "Unknown")
                \o (IF c.brand # Null /\ c.brand # "" THEN " (" \o c.brand \o ")" ELSE ""),
             IF c.offer # Null THEN "Offer: " \o c.offer ELSE Null,
             IF NonEmptyList(c.key_value_props)
                THEN "Value props: " \o Join(Val(c.key_value_props), ", ") ELSE Null,
             IF c.imagery_sentiment # Null
                THEN "Sentiment: " \o c.imagery_sentiment ELSE Null,
             IF c.imagery_visual_style # Null
                THEN "Visual style: " \o c.imagery_visual_style ELSE Null,
             IF c.capture_date # 0 THEN "Date: " \o ToString(c.capture_date) ELSE Null,
             IF textSnippet # "" THEN "Copy: " \o textSnippet \o "..." ELSE Null >>
    IN Join(Truthy(parts), " | ")

\* the summary is kept as its sequence of lines (the code joins them with \n)
buildToolResult(campaigns) ==
    LET count == Len(campaigns)
        forSummary == Limit(campaigns, MAX_SUMMARY_CAMPAIGNS)
        lines == [idx \in 1..Len(forSummary) |-> SummaryLine(forSummary[idx], idx)]
        summary_for_llm ==
            IF count = 0 THEN <<"No campaigns found.">>
            ELSE <<"Found " \o ToString(count) \o " campaign(s).">> \o lines
                 \o (IF count > MAX_SUMMARY_CAMPAIGNS
                     THEN <<"... and " \o ToString(count - MAX_SUMMARY_CAMPAIGNS) \o " more.">>
                     ELSE <<>>)
    IN [count |-> count, summary_for_llm |-> summary_for_llm, campaigns |-> campaigns]

NoToolResult == [count |-> 0, summary_for_llm |-> <<>>, campaigns |-> <<>>]

\* what a call that may throw yields; calls lists the external calls it made
Returned(v) == [ok |-> TRUE, value |-> v, error |-> "", calls |-> <<>>]
Thrown(message) == [ok |-> FALSE, value |-> NoToolResult, error |-> message, calls |-> <<>>]

\* outcome r, reached after the external calls before
After(before, r) == [r EXCEPT !.calls = before \o @]

\* the store a tool runs against: its rows and the external calls that fail
Db(rows, faults) == [rows |-> rows, faults |-> faults]

\* arguments of a tool call, after JSON.parse
EmptyArgs ==
    [channel |-> Absent, value_prop |-> Absent, sentiment |-> Absent,
     visual_style |-> Absent, date_range |-> Absent, has_offer |-> Absent,
     query |-> Absent, embedding_field |-> Absent]

\* the filters object a runner builds from the merged filters: only the
\* non-empty lists (chat-tools lines 635-639, 674-679)
PlanLists(m) ==
    [f \in ListFields |-> IF NonEmptyList(m[f]) THEN m[f] ELSE Absent]

\* the conditions the query builder adds for the list filters
RowMatchesLists(c, f) ==
    /\ NonEmptyList(f.channel) => SqlIn(c.channel, Val(f.channel))
    /\ NonEmptyList(f.value_prop) => SqlOverlaps(c.key_value_props, Val(f.value_prop))
    /\ NonEmptyList(f.sentiment) => SqlIn(c.imagery_sentiment, Val(f.sentiment))
    /\ NonEmptyList(f.visual_style) => SqlIn(c.imagery_visual_style, Val(f.visual_style))

RowMatchesRange(c, f) ==
    IsPresent(f.date_range) =>
        /\ Val(f.date_range).start # 0 => SqlGte(c.capture_date, Val(f.date_range).start)
        /\ Val(f.date_range).end # 0 => SqlLte(c.capture_date, Val(f.date_range).end)

\* query-executor lines 174-211
executeFilteredQuery(f, db) ==
    After(<<"from campaigns">>,
          IF "query" \in db.faults THEN Thrown("Query failed")
          ELSE Returned(Limit(SelectSeq(db.rows,
                    LAMBDA c : RowMatchesLists(c, f) /\ RowMatchesRange(c, f)), 50)))

\* schema.sql lines 75-115: the search_campaigns function
search_campaigns(rows, embedding_field, match_threshold, match_count, filter_channels, filter_value_props) ==
    LET field ==
            IF embedding_field \in {"value_prop_embedding", "copy_embedding", "visual_embedding"}
            THEN embedding_field ELSE "value_prop_embedding"
        sim == [id \in DOMAIN Similarity |-> Similarity[id][field]]
        hit(c) ==
            /\ sim[c.id] >= 0 /\ sim[c.id] > match_threshold
            /\ IsPresent(filter_channels) => SqlIn(c.channel, Val(filter_channels))
            /\ IsPresent(filter_value_props) =>
                  SqlOverlaps(c.key_value_props, Val(filter_value_props))
    IN Limit(OrderDesc(SelectSeq(rows, hit), sim), match_count)

\* faulty variant: a failing similarity search is not caught
executeVectorSearchNoFallback(vectorField, f, db) ==
    After(<<"rpc search_campaigns">>,
          IF "rpc" \in db.faults THEN Thrown("Vector search failed")
          ELSE Returned(search_campaigns(db.rows, vectorField, 70, 20, f.channel, f.value_prop)))

\* query-executor lines 23-92
executeVectorSearch(vectorField, f, db) ==
    After(<<"rpc search_campaigns">>,
          IF "rpc" \in db.faults THEN executeFilteredQuery(f, db)
          ELSE Returned(search_campaigns(db.rows, vectorField, 70, 20, f.channel, f.value_prop)))

\* faulty variant: a failing embedding call is swallowed
embedTextSwallowed(text, db) == After(<<"embeddings.create">>, Returned(NoToolResult))

\* lib/embeddings lines 7-19
embedText(text, db) ==
    After(<<"embeddings.create">>,
          IF "embed" \in db.faults THEN Thrown("Failed to create embedding")
          ELSE Returned(NoToolResult))

\* part_002 lines 629-639: the plan's filters of runSemanticSearch, the non-empty
\* merged lists
semanticSearchFilters(params, base) ==
    LET m == mergeFilters(base, [channel |-> params.channel, value_prop |-> params.value_prop,
                                 sentiment |-> params.sentiment,
                                 visual_style |-> params.visual_style,
                                 date_range |-> Absent])
        lists == PlanLists(m)
    IN [channel |-> lists.channel, value_prop |-> lists.value_prop,
        sentiment |-> lists.sentiment, visual_style |-> lists.visual_style,
        date_range |-> Absent]

\* faulty variant: the rows of the store call are returned as they are
runSemanticSearchAsReturned(params, base, db) ==
    LET f == semanticSearchFilters(params, base)
        queryEmbedding == embedText(params.query, db)
        vectorField ==
            IF IsPresent(params.embedding_field) THEN Val(params.embedding_field)
            ELSE "value_prop_embedding"
        result == executeVectorSearch(vectorField, f, db)
    IN IF ~queryEmbedding.ok THEN After(queryEmbedding.calls, Thrown(queryEmbedding.error))
       ELSE IF ~result.ok
            THEN After(queryEmbedding.calls \o result.calls, Thrown(result.error))
            ELSE After(queryEmbedding.calls \o result.calls,
                       Returned(buildToolResult(result.value)))

runSemanticSearch(params, base, db) ==
    LET f == semanticSearchFilters(params, base)
        queryEmbedding == embedText(params.query, db)
        vectorField ==
            IF IsPresent(params.embedding_field) THEN Val(params.embedding_field)
            ELSE "value_prop_embedding"
        result == executeVectorSearch(vectorField, f, db)
        keep(c) ==
            /\ NonEmptyList(f.sentiment) =>
                  (c.imagery_sentiment # Null /\ Includes(Val(f.sentiment), c.imagery_sentiment))
            /\ NonEmptyList(f.visual_style) =>
                  (c.imagery_visual_style # Null
                     /\ Includes(Val(f.visual_style), c.imagery_visual_style))
    IN IF ~queryEmbedding.ok THEN After(queryEmbedding.calls, Thrown(queryEmbedding.error))
       ELSE IF ~result.ok
            THEN After(queryEmbedding.calls \o result.calls, Thrown(result.error))
            ELSE After(queryEmbedding.calls \o result.calls,
                       Returned(buildToolResult(SelectSeq(result.value, keep))))

\* part_002 lines 667-679: the plan's filters of runFilterCampaigns
filterCampaignsFilters(params, base) ==
    LET m == mergeFilters(base, [channel |-> params.channel, value_prop |-> params.value_prop,
                                 sentiment |-> params.sentiment,
                                 visual_style |-> params.visual_style,
                                 date_range |-> params.date_range])
        lists == PlanLists(m)
    IN [channel |-> lists.channel, value_prop |-> lists.value_prop,
        sentiment |-> lists.sentiment, visual_style |-> lists.visual_style,
        date_range |-> m.date_range]

runFilterCampaigns(params, base, db) ==
    LET f == filterCampaignsFilters(params, base)
        result == executeFilteredQuery(f, db)
        hasOffer(c) == c.offer # Null /\ c.offer \notin BlankStrings
    IN IF ~result.ok THEN After(result.calls, Thrown(result.error))
       ELSE IF params.has_offer = Some(TRUE)
            THEN After(result.calls, Returned(buildToolResult(SelectSeq(result.value, hasOffer))))
            ELSE After(result.calls, Returned(buildToolResult(result.value)))

\* schema.sql lines 118-136: the search_campaigns_by_text function
search_campaigns_by_text(rows, query_text, limit_count, filter_channels) ==
    LET rank == [id \in DOMAIN TextRank |-> IF IsPresent(query_text) THEN TextRank[id] ELSE 0]
        hit(c) ==
            /\ rank[c.id] > 0
            /\ IsPresent(filter_channels) => SqlIn(c.channel, Val(filter_channels))
    IN Limit(OrderDesc(SelectSeq(rows, hit), rank), limit_count)

\* faulty variant: the store's error is raised
runFullTextSearchRaising(params, base, db) ==
    LET filterChannels ==
            IF NonEmptyList(params.channel) THEN params.channel ELSE base.channel
    IN After(<<"rpc search_campaigns_by_text">>,
             IF "rpc" \in db.faults THEN Thrown("Full-text search failed")
             ELSE Returned(buildToolResult(
                      search_campaigns_by_text(db.rows, params.query, 50, filterChannels))))

\* faulty variant: the channel lists of the argument and of the base filters
\* are unioned
fullTextFilterChannelsUnion(params, base) ==
    IF IsPresent(params.channel) /\ IsPresent(base.channel)
    THEN Some(Val(base.channel) \o Val(params.channel))
    ELSE IF IsPresent(params.channel) THEN params.channel ELSE base.channel

\* part_002 line 697: filterChannels
fullTextFilterChannels(params, base) ==
    IF NonEmptyList(params.channel) THEN params.channel ELSE base.channel

runFullTextSearch(params, base, db) ==
    LET filterChannels == fullTextFilterChannels(params, base)
    IN After(<<"rpc search_campaigns_by_text">>,
             IF "rpc" \in db.faults THEN Returned(buildToolResult(<<>>))
             ELSE Returned(buildToolResult(
                      search_campaigns_by_text(db.rows, params.query, 50, filterChannels))))

\* part_002 lines 717-722: merged of runSearchOffers
searchOffersMerged(params, base) ==
    mergeFilters(base, [channel |-> params.channel, value_prop |-> params.value_prop,
                        sentiment |-> params.sentiment,
                        visual_style |-> params.visual_style,
                        date_range |-> Absent])

runSearchOffers(params, base, db) ==
    LET m == searchOffersMerged(params, base)
        hit(c) ==
            /\ c.offer # Null
            /\ IsPresent(params.query) /\ ILikeOffer(c.offer, Val(params.query))
            /\ RowMatchesLists(c, m)
    IN After(<<"from campaigns">>,
             IF "query" \in db.faults THEN Returned(buildToolResult(<<>>))
             ELSE Returned(buildToolResult(Limit(SelectSeq(db.rows, hit), 50))))

ToolNames == {"semantic_search", "filter_campaigns", "full_text_search", "search_offers"}

\* getToolRunner(name)(params, baseFilters): an unknown name throws
getToolRunner(name, params, base, db) ==
    CASE name = "semantic_search" -> runSemanticSearch(params, base, db)
      [] name = "filter_campaigns" -> runFilterCampaigns(params, base, db)
      [] name = "full_text_search" -> runFullTextSearch(params, base, db)
      [] name = "search_offers" -> runSearchOffers(params, base, db)
      [] OTHER -> Thrown("Unknown tool: " \o name)

----------------------------------------------------------------------------
(* Chat route: app/api/chat/route.ts *)

MAX_AGENT_ITERATIONS == 5

\* bounds of the environment: the tool invocations the model requests in one
\* turn and in one request, and the length of a text it returns
MaxCallsPerTurn == 2
MaxToolCalls == 5
MaxTextLen == 2

\* a text is a sequence of characters; a fixed message of the code is a text of
\* one element, the whole message
Chars == {" ", "a"}
Texts == UNION {[1..n -> Chars] : n \in 0..MaxTextLen}

RECURSIVE TrimStart(_)
TrimStart(t) == IF Len(t) > 0 /\ Head(t) = " " THEN TrimStart(Tail(t)) ELSE t

RECURSIVE TrimEnd(_)
TrimEnd(t) ==
    IF Len(t) > 0 /\ t[Len(t)] = " " THEN TrimEnd(SubSeq(t, 1, Len(t) - 1)) ELSE t

\* String.prototype.trim
trim(t) == TrimEnd(TrimStart(t))

SYSTEM_MESSAGE == "You are an AI assistant helping analyze marketing campaign data."
NO_MESSAGE_ANSWER == <<"I couldn't generate a response. Please try again.">>
NO_DATA_ANSWER ==
    <<"I don't have enough data to answer. Try asking to search or filter campaigns.">>

\* faulty variant: the answer is not trimmed (msg.content || <fallback>)
FinalAnswerUntrimmed(content) ==
    LET text == IF IsPresent(content) THEN Val(content) ELSE <<>>
    IN IF text # <<>> THEN text ELSE NO_DATA_ANSWER

\* line 70: (msg.content ?? '').trim() || <fallback>
FinalAnswerOf(content) ==
    LET text == trim(IF IsPresent(content) THEN Val(content) ELSE <<>>)
    IN IF text # <<>> THEN text ELSE NO_DATA_ANSWER

\* request bodies: what request.json() yields, or fails on
JsonValues ==
    {[type |-> "undefined", text |-> ""], [type |-> "null", text |-> ""],
     [type |-> "string", text |-> ""], [type |-> "number", text |-> "0"],
     [type |-> "number", text |-> "7"], [type |-> "string", text |-> "instagram offers"]}

\* faulty variant: only a missing or null message is refused (message == null)
FalsyNullish(v) == v.type \in {"undefined", "null"}

\* !message
Falsy(v) ==
    \/ v.type \in {"undefined", "null"}
    \/ v.type = "string" /\ v.text = ""
    \/ v.type = "number" /\ v.text = "0"

RequestFilters ==
    {Absent,
     Some([EmptyFilters EXCEPT !.channel = Some(<<"email", "instagram">>),
                               !.date_range = Some([start |-> 2, end |-> 0])])}

Bodies ==
    [kind : {"unparseable", "null"}, message : {[type |-> "undefined", text |-> ""]},
     activeFilters : {Absent}]
    \cup [kind : {"object"}, message : JsonValues, activeFilters : RequestFilters]

NoResponse ==
    [status |-> 0, keys |-> {}, response |-> <<>>, campaigns |-> <<>>, total |-> 0,
     suggestions |-> <<>>, detectedFilters |-> Absent, error |-> "", message |-> ""]

\* line 35
BadRequestResponse ==
    [NoResponse EXCEPT !.status = 400, !.keys = {"error"}, !.error = "Message is required"]

\* faulty variant: the catch block answers with the error label only
ErrorResponseBare(message) ==
    [NoResponse EXCEPT !.status = 500, !.keys = {"error"},
                       !.error = "Failed to process query"]

\* lines 133-142
ErrorResponse(message) ==
    [NoResponse EXCEPT !.status = 500, !.keys = {"error", "message"},
                       !.error = "Failed to process query", !.message = message]

NoDetectedFilters == [f \in ListFields |-> Absent]

\* the two pools of follow-up suggestions, lines 148-154
RESULTS_POOL ==
    <<"Show me the most common value propositions",
      "Compare campaigns across different channels",
      "What visual styles are trending?">>
NO_RESULTS_POOL ==
    <<"Show me campaigns emphasizing travel benefits",
      "What are the offers from Cash Back campaigns?",
      "Find aspirational campaigns on Instagram">>

\* faulty variant: the pool is chosen by whether a result was captured at all
generateSuggestionsAnyResult(lastResult) ==
    IF IsPresent(lastResult) THEN RESULTS_POOL ELSE NO_RESULTS_POOL

\* lines 145-157
generateSuggestions(lastResult) ==
    LET suggestions ==
            IF IsPresent(lastResult) /\ Val(lastResult).count > 0
            THEN RESULTS_POOL ELSE NO_RESULTS_POOL
    IN SubSeq(suggestions, 1, Min(3, Len(suggestions)))

\* lines 123-132; JSON drops a key whose value is undefined
OkResponse(answer, lastResult, detected) ==
    LET hasDetected == \E f \in ListFields : IsPresent(detected[f])
    IN [status |-> 200,
        keys |-> {"response", "campaigns", "total", "suggestions", "debugSteps"}
                    \cup (IF hasDetected THEN {"detectedFilters"} ELSE {}),
        response |-> answer,
        campaigns |-> IF IsPresent(lastResult) THEN Val(lastResult).campaigns ELSE <<>>,
        total |-> IF IsPresent(lastResult) THEN Val(lastResult).count ELSE 0,
        suggestions |-> generateSuggestions(lastResult),
        detectedFilters |-> IF hasDetected THEN Some(detected) ELSE Absent,
        error |-> "", message |-> ""]

\* conversation records
Message(role, content, calls, id) ==
    [role |-> role, content |-> content, tool_calls |-> calls, tool_call_id |-> id]

\* faulty variant: what can be read of a payload that does not parse is used
ParseArgumentsLenient(arguments) == arguments.object

\* lines 85-89: JSON.parse of the argument payload, {} when it does not parse
ParseArguments(arguments) == IF arguments.valid THEN arguments.object ELSE EmptyArgs

\* the tool invocations the model may request: an unknown tool, filter_campaigns
\* with a well-formed payload that holds an empty list, full_text_search with a
\* payload that does not parse
ToolCallChoices ==
    {[name |-> "lookup_campaign", arguments |-> [valid |-> TRUE, object |-> EmptyArgs]],
     [name |-> "filter_campaigns",
      arguments |-> [valid |-> TRUE,
                     object |-> [EmptyArgs EXCEPT !.channel = Some(<<"instagram">>),
                                                  !.sentiment = Some(<<>>),
                                                  !.has_offer = Some(TRUE)]]],
     [name |-> "full_text_search",
      arguments |-> [valid |-> FALSE, object |-> [EmptyArgs EXCEPT !.query = Some("back")]]]}

\* the external calls that may fail during one tool invocation
FaultSets == {{}, {"query"}}

\* text the model may send along with tool requests
ToolTurnContents == {Absent}

\* what one chat.completions.create call yields: it throws ("error"), returns no
\* message ("no_message"), or returns a message with a content and tool calls
Completion(kind, content, calls) == [kind |-> kind, content |-> content, tool_calls |-> calls]
NoCompletion == Completion("none", Absent, <<>>)

\* no tool invocation, summary or ingestion run is under way
NoToolCall == [name |-> "", arguments |-> EmptyArgs, db |-> Db(<<>>, {})]

ToolIdle ==
    /\ toolCall = NoToolCall
    /\ toolOut = Returned(NoToolResult)
    /\ campaignList = <<>>
    /\ built = NoToolResult

IngestIdle ==
    /\ imageGroups = <<>>
    /\ analysis = FALSE
    /\ campaignId = 0
    /\ campaignsTable = {}
    /\ campaign_vectors = {}
    /\ results = <<>>

PairIdle ==
    /\ requests = <<>>
    /\ openai = Null
    /\ supabase = {}

UiIdle ==
    /\ activeFilters = EmptyFilters
    /\ isLoading = FALSE
    /\ llmResponse = <<>>
    /\ chatMessages = <<>>
    /\ pending = <<>>
    /\ sent = 0

LoopLocalsIdle ==
    /\ body = [kind |-> "null", message |-> [type |-> "undefined", text |-> ""],
               activeFilters |-> Absent]
    /\ messages = <<>>
    /\ i = 0
    /\ msg = NoCompletion
    /\ k = 0
    /\ finalAnswer = <<>>
    /\ lastToolResult = Absent
    /\ detectedFilters = NoDetectedFilters
    /\ response = NoResponse
    /\ llmCalls = 0
    /\ toolRuns = 0

LoopIdle == LoopLocalsIdle /\ apiKeySet = TRUE

----------------------------------------------------------------------------
(* Specification of mergeFilters: one call on arbitrary arguments *)

InitMerge ==
    /\ pc = "merge_call"
    /\ baseFilters \in FilterSets
    /\ newFilters \in FilterSets
    /\ merged = EmptyFilters
    /\ campaign = NoCampaign
    /\ filters = EmptyFilters
    /\ matched = FALSE
    /\ LoopIdle
    /\ ToolIdle
    /\ IngestIdle
    /\ PairIdle
    /\ UiIdle

\* line 149 copies baseFilters into a fresh object; the arguments are only read
MergeFiltersCall ==
    /\ pc = "merge_call"
    /\ merged' = mergeFilters(baseFilters, newFilters)
    /\ pc' = "merge_return"
    /\ UNCHANGED <<baseFilters, newFilters, campaign, filters, matched, loopVars, toolVars,
                 ingestVars, pairVars, uiVars>>

NextMerge == MergeFiltersCall

SpecMerge == InitMerge /\ [][NextMerge]_vars

----------------------------------------------------------------------------
(* Claims about mergeFilters *)

MergeReturned == pc = "merge_return"

\* C8 (as stated in the specification): per field, a non-empty overlay value
\* replaces base's, an empty overlay list removes the field, and a field the
\* overlay leaves out carries base's value unchanged; the arguments are not
\* modified by the call.
C8_OverlayOrCarryUnchanged ==
    /\ [](MergeReturned =>
            /\ \A f \in ListFields :
                  /\ NonEmptyList(newFilters[f]) => merged[f] = newFilters[f]
                  /\ newFilters[f] = Some(<<>>) => merged[f] = Absent
                  /\ newFilters[f] = Absent => merged[f] = baseFilters[f]
            /\ IsPresent(newFilters.date_range) => merged.date_range = newFilters.date_range
            /\ newFilters.date_range = Absent => merged.date_range = baseFilters.date_range)
    /\ [][pc = "merge_call" => (baseFilters' = baseFilters /\ newFilters' = newFilters)]_vars

\* C8 (amended): as above, except that a list field the overlay leaves out is
\* carried over only when base's list is non-empty; an empty list held by base
\* is dropped from the result (field absent).
C8_OverlayOrCarryNonEmpty ==
    /\ [](MergeReturned =>
            /\ \A f \in ListFields :
                  /\ NonEmptyList(newFilters[f]) => merged[f] = newFilters[f]
                  /\ newFilters[f] = Some(<<>>) => merged[f] = Absent
                  /\ (newFilters[f] = Absent /\ NonEmptyList(baseFilters[f]))
                        => merged[f] = baseFilters[f]
                  /\ (newFilters[f] = Absent /\ ~NonEmptyList(baseFilters[f]))
                        => merged[f] = Absent
            /\ IsPresent(newFilters.date_range) => merged.date_range = newFilters.date_range
            /\ newFilters.date_range = Absent => merged.date_range = baseFilters.date_range)
    /\ [][pc = "merge_call" => (baseFilters' = baseFilters /\ newFilters' = newFilters)]_vars

\* C8 witness: one merge in which the overlay replaces a field, clears a field
\* that base constrained, and leaves out a field that base constrained.
C8_Witness ==
    /\ MergeReturned
    /\ NonEmptyList(newFilters.channel) /\ NonEmptyList(baseFilters.channel)
    /\ newFilters.channel # baseFilters.channel
    /\ newFilters.value_prop = Some(<<>>) /\ NonEmptyList(baseFilters.value_prop)
    /\ newFilters.sentiment = Absent /\ NonEmptyList(baseFilters.sentiment)
    /\ newFilters.date_range = Absent /\ IsPresent(baseFilters.date_range)

\* C9 (as stated in the specification): merging an overlay whose fields are all
\* absent returns base, field for field, whatever lists base holds.
C9_EmptyOverlayIsIdentity ==
    (MergeReturned /\ newFilters = EmptyFilters) => merged = baseFilters

\* C9 (amended): merging an overlay whose fields are all absent returns base
\* with its empty lists removed; it equals base exactly when base holds no
\* empty list.
C9_EmptyOverlayDropsEmptyLists ==
    (MergeReturned /\ newFilters = EmptyFilters) =>
        /\ \A f \in ListFields :
              merged[f] = (IF baseFilters[f] = Some(<<>>) THEN Absent ELSE baseFilters[f])
        /\ merged.date_range = baseFilters.date_range
        /\ (merged = baseFilters) <=> (\A f \in ListFields : baseFilters[f] # Some(<<>>))

\* C9 witness: an all-absent overlay merged onto a base holding a non-empty
\* list, an empty list and a date range.
C9_Witness ==
    /\ MergeReturned /\ newFilters = EmptyFilters
    /\ NonEmptyList(baseFilters.channel)
    /\ baseFilters.value_prop = Some(<<>>)
    /\ IsPresent(baseFilters.date_range)

----------------------------------------------------------------------------
(* Specification of matchesFilters: one call on arbitrary arguments *)

InitMatch ==
    /\ pc = "match_call"
    /\ campaign \in CampaignRows
    /\ filters \in FilterSets
    /\ matched = FALSE
    /\ baseFilters = EmptyFilters
    /\ newFilters = EmptyFilters
    /\ merged = EmptyFilters
    /\ LoopIdle
    /\ ToolIdle
    /\ IngestIdle
    /\ PairIdle
    /\ UiIdle

MatchesFiltersCall ==
    /\ pc = "match_call"
    /\ matched' = matchesFilters(campaign, filters)
    /\ pc' = "match_return"
    /\ UNCHANGED <<baseFilters, newFilters, merged, campaign, filters, loopVars, toolVars,
                 ingestVars, pairVars, uiVars>>

NextMatch == MatchesFiltersCall

SpecMatch == InitMatch /\ [][NextMatch]_vars

----------------------------------------------------------------------------
(* Claims about matchesFilters *)

MatchReturned == pc = "match_return"

\* the date range constrains the capture date: it gives a start or an end
RangeConstrains(f) ==
    IsPresent(f.date_range) /\ (Val(f.date_range).start # 0 \/ Val(f.date_range).end # 0)

\* some dimension the filter set constrains is null on the campaign
NullOnConstrained(c, f) ==
    \/ NonEmptyList(f.channel) /\ c.channel = Null
    \/ NonEmptyList(f.value_prop) /\ c.key_value_props = Absent
    \/ NonEmptyList(f.sentiment) /\ c.imagery_sentiment = Null
    \/ NonEmptyList(f.visual_style) /\ c.imagery_visual_style = Null
    \/ RangeConstrains(f) /\ c.capture_date = 0

\* C10: a campaign that is null on a dimension the filter set constrains
\* (channel, value props, sentiment, visual style, capture date under a date
\* range) never matches.
C10_NullNeverPasses ==
    (MatchReturned /\ NullOnConstrained(campaign, filters)) => matched = FALSE

\* the campaign is populated on every dimension a filter set can constrain
Populated(c) ==
    /\ c.channel # Null
    /\ IsPresent(c.key_value_props)
    /\ c.imagery_sentiment # Null
    /\ c.imagery_visual_style # Null
    /\ c.capture_date # 0

\* the values of a list
Values(list) == {list[j] : j \in 1..Len(list)}

\* the campaign's capture date lies within the range, inclusive, on whichever
\* of start and end are given
WithinRange(c, r) ==
    /\ r.start # 0 => c.capture_date >= r.start
    /\ r.end # 0 => c.capture_date <= r.end

\* C11 (as stated in the specification): for a campaign populated on every
\* constrained dimension, matches is true if and only if every field that is
\* present in the filter set is satisfied (membership for channel, sentiment
\* and visual style, intersection for value props, inclusive range for the
\* capture date).
C11_MatchesIffEveryPresentField ==
    (MatchReturned /\ Populated(campaign)) =>
        (matched <=>
            /\ IsPresent(filters.channel) => campaign.channel \in Values(Val(filters.channel))
            /\ IsPresent(filters.value_prop) =>
                  Values(Val(campaign.key_value_props)) \cap Values(Val(filters.value_prop)) # {}
            /\ IsPresent(filters.sentiment) =>
                  campaign.imagery_sentiment \in Values(Val(filters.sentiment))
            /\ IsPresent(filters.visual_style) =>
                  campaign.imagery_visual_style \in Values(Val(filters.visual_style))
            /\ IsPresent(filters.date_range) => WithinRange(campaign, Val(filters.date_range)))

\* C11 (amended): as above, for every field that is present and, for the list
\* fields, not empty; a field present as an empty list constrains nothing.
C11_MatchesIffEveryNonEmptyField ==
    (MatchReturned /\ Populated(campaign)) =>
        (matched <=>
            /\ NonEmptyList(filters.channel) => campaign.channel \in Values(Val(filters.channel))
            /\ NonEmptyList(filters.value_prop) =>
                  Values(Val(campaign.key_value_props)) \cap Values(Val(filters.value_prop)) # {}
            /\ NonEmptyList(filters.sentiment) =>
                  campaign.imagery_sentiment \in Values(Val(filters.sentiment))
            /\ NonEmptyList(filters.visual_style) =>
                  campaign.imagery_visual_style \in Values(Val(filters.visual_style))
            /\ IsPresent(filters.date_range) => WithinRange(campaign, Val(filters.date_range)))

\* C11 witness: a populated campaign matched a filter set that constrains all
\* five dimensions, its channel being the second entry of the channel list.
C11_Witness ==
    /\ MatchReturned /\ Populated(campaign) /\ matched
    /\ \A f \in ListFields : NonEmptyList(filters[f])
    /\ Len(Val(filters.channel)) = 2 /\ campaign.channel = Val(filters.channel)[2]
    /\ filters.date_range = Some([start |-> 1, end |-> 2])
    /\ campaign.capture_date = 2

----------------------------------------------------------------------------
(* Specification of buildToolResult: one call on a campaign list of any       *)
(* length up to the largest store's                                           *)

\* the campaign lists: runs of consecutive rows of the largest store
CampaignLists ==
    {SubSeq(LargeStore, first, last) : first \in 1..3, last \in 0..MaxStoreRows}

InitSummary ==
    /\ pc = "summary_call"
    /\ campaignList \in CampaignLists
    /\ built = NoToolResult
    /\ toolCall = NoToolCall
    /\ toolOut = Returned(NoToolResult)
    /\ baseFilters = EmptyFilters
    /\ newFilters = EmptyFilters
    /\ merged = EmptyFilters
    /\ campaign = NoCampaign
    /\ filters = EmptyFilters
    /\ matched = FALSE
    /\ LoopIdle
    /\ IngestIdle
    /\ PairIdle
    /\ UiIdle

BuildToolResultCall ==
    /\ pc = "summary_call"
    /\ built' = buildToolResult(campaignList)
    /\ pc' = "summary_return"
    /\ UNCHANGED <<baseFilters, filterVars, loopVars, toolCall, toolOut, campaignList,
                   ingestVars, pairVars, uiVars>>

NextSummary == BuildToolResultCall

SpecSummary == InitSummary /\ [][NextSummary]_vars

----------------------------------------------------------------------------
(* Claims about buildToolResult *)

SummaryReturned == pc = "summary_return"

----------------------------------------------------------------------------
(* Specification of one chat request: POST /api/chat *)

Init ==
    /\ pc = "received"
    /\ body \in Bodies
    /\ apiKeySet \in BOOLEAN
    /\ baseFilters = EmptyFilters
    /\ newFilters = EmptyFilters
    /\ merged = EmptyFilters
    /\ campaign = NoCampaign
    /\ filters = EmptyFilters
    /\ matched = FALSE
    /\ messages = <<>>
    /\ i = 0
    /\ msg = NoCompletion
    /\ k = 0
    /\ finalAnswer = <<>>
    /\ lastToolResult = Absent
    /\ detectedFilters = NoDetectedFilters
    /\ response = NoResponse
    /\ llmCalls = 0
    /\ toolRuns = 0
    /\ ToolIdle
    /\ IngestIdle
    /\ PairIdle
    /\ UiIdle

ValidMessage == body.kind = "object" /\ ~Falsy(body.message) /\ body.message.type = "string"

\* line 32 throws: the body is not JSON, or is null and cannot be destructured
FailOnBody ==
    /\ pc = "received"
    /\ body.kind # "object"
    /\ response' = ErrorResponse(IF body.kind = "null" THEN "Cannot destructure property"
                                 ELSE "Unexpected token")
    /\ pc' = "failed"
    /\ UNCHANGED <<baseFilters, filterVars, toolVars, ingestVars, pairVars, uiVars, body, apiKeySet, messages, i, msg, k,
                   finalAnswer, lastToolResult, detectedFilters, llmCalls, toolRuns>>

\* lines 34-36
RejectRequest ==
    /\ pc = "received"
    /\ body.kind = "object"
    /\ Falsy(body.message) \/ body.message.type # "string"
    /\ response' = BadRequestResponse
    /\ pc' = "rejected"
    /\ UNCHANGED <<baseFilters, filterVars, toolVars, ingestVars, pairVars, uiVars, body, apiKeySet, messages, i, msg, k,
                   finalAnswer, lastToolResult, detectedFilters, llmCalls, toolRuns>>

\* line 40 throws: getOpenAIClient finds no API key
FailOnClient ==
    /\ pc = "received"
    /\ ValidMessage
    /\ ~apiKeySet
    /\ response' = ErrorResponse("OPENAI_API_KEY environment variable is not set")
    /\ pc' = "failed"
    /\ UNCHANGED <<baseFilters, filterVars, toolVars, ingestVars, pairVars, uiVars, body, apiKeySet, messages, i, msg, k,
                   finalAnswer, lastToolResult, detectedFilters, llmCalls, toolRuns>>

\* lines 38-51: the loop's state and the seeded buffer
StartLoop ==
    /\ pc = "received"
    /\ ValidMessage
    /\ apiKeySet
    /\ baseFilters' = (IF IsPresent(body.activeFilters) THEN Val(body.activeFilters)
                       ELSE EmptyFilters)
    /\ messages' = << Message("system", Some(<<SYSTEM_MESSAGE>>), <<>>, 0),
                      Message("user", Some(<<body.message.text>>), <<>>, 0) >>
    /\ finalAnswer' = <<>>
    /\ lastToolResult' = Absent
    /\ detectedFilters' = NoDetectedFilters
    /\ i' = 0
    /\ pc' = "awaiting_model_turn"
    /\ UNCHANGED <<filterVars, toolVars, ingestVars, pairVars, uiVars, body, apiKeySet, msg, k, response,
                   llmCalls, toolRuns>>

\* lines 53-60 throw: the request ends in the catch block
ModelCallFails ==
    /\ pc = "awaiting_model_turn"
    /\ llmCalls' = llmCalls + 1
    /\ msg' = Completion("error", Absent, <<>>)
    /\ response' = ErrorResponse("Connection error.")
    /\ pc' = "failed"
    /\ UNCHANGED <<baseFilters, filterVars, toolVars, ingestVars, pairVars, uiVars, body, apiKeySet, messages, i, k,
                   finalAnswer, lastToolResult, detectedFilters, toolRuns>>

\* lines 62-66, 123-132: the completion carries no message
ModelReturnsNoMessage ==
    /\ pc = "awaiting_model_turn"
    /\ llmCalls' = llmCalls + 1
    /\ msg' = Completion("no_message", Absent, <<>>)
    /\ finalAnswer' = NO_MESSAGE_ANSWER
    /\ response' = OkResponse(NO_MESSAGE_ANSWER, lastToolResult, detectedFilters)
    /\ pc' = "done"
    /\ UNCHANGED <<baseFilters, filterVars, toolVars, ingestVars, pairVars, uiVars, body, apiKeySet, messages, i, k,
                   lastToolResult, detectedFilters, toolRuns>>

\* lines 68-72, 123-132: the message requests no tool
ModelAnswers ==
    /\ pc = "awaiting_model_turn"
    /\ \E content \in {Absent} \cup {Some(t) : t \in Texts} :
          /\ msg' = Completion("message", content, <<>>)
          /\ finalAnswer' = FinalAnswerOf(content)
          /\ response' = OkResponse(FinalAnswerOf(content), lastToolResult, detectedFilters)
    /\ llmCalls' = llmCalls + 1
    /\ pc' = "done"
    /\ UNCHANGED <<baseFilters, filterVars, toolVars, ingestVars, pairVars, uiVars, body, apiKeySet, messages, i, k,
                   lastToolResult, detectedFilters, toolRuns>>

\* the tool_calls lists of n requests; the ids number the request's invocations
CallLists(n) ==
    {[j \in 1..n |-> [id |-> toolRuns + j, name |-> choice[j].name,
                      arguments |-> choice[j].arguments]] :
        choice \in [1..n -> ToolCallChoices]}

\* lines 74-79: the message requests tools
ModelRequestsTools ==
    /\ pc = "awaiting_model_turn"
    /\ \E n \in 1..MaxCallsPerTurn, content \in ToolTurnContents :
          /\ toolRuns + n <= MaxToolCalls
          /\ \E calls \in CallLists(n) :
                /\ msg' = Completion("message", content, calls)
                /\ messages' = Append(messages, Message("assistant", content, calls, 0))
    /\ llmCalls' = llmCalls + 1
    /\ k' = 1
    /\ pc' = "executing_tools"
    /\ UNCHANGED <<baseFilters, filterVars, toolVars, ingestVars, pairVars, uiVars, body, apiKeySet, i, finalAnswer, lastToolResult,
                   detectedFilters, response, toolRuns>>

\* faulty variant: a thrown error clears the captured result
CaptureOrClear(last, out) == IF out.ok THEN Some(out.value) ELSE Absent

\* lines 94-95 and 110: a returned result is captured, a thrown error leaves
\* the captured result as it was
CaptureResult(last, out) == IF out.ok THEN Some(out.value) ELSE last

\* faulty variant: a thrown error is reported to the model as an empty result
ToolRecordContentSwallowed(name, out) ==
    IF out.ok THEN out.value.summary_for_llm ELSE <<"No campaigns found.">>

\* lines 105-109 and 114-118: the content of the invocation's tool record
ToolRecordContent(name, out) ==
    IF out.ok THEN out.value.summary_for_llm
    ELSE <<"Error running " \o name \o ": " \o out.error \o ".">>

\* faulty variant: the loop condition is off by one (i <= MAX_AGENT_ITERATIONS)
LoopContinuesInclusive(iter) == iter <= MAX_AGENT_ITERATIONS

\* line 51: the loop condition
LoopContinues(iter) == iter < MAX_AGENT_ITERATIONS

\* lines 98-103
DetectFilters(detected, name, args) ==
    IF name = "filter_campaigns"
    THEN [f \in ListFields |-> IF IsPresent(args[f]) THEN args[f] ELSE detected[f]]
    ELSE detected

\* lines 85-94: await getToolRunner(name)(args, baseFilters), tabulated over the
\* invocations, base filters and faults of a chat request, which runs against Store
ToolOutcome ==
    [tc \in ToolCallChoices |->
        [base \in {EmptyFilters} \cup {Val(o) : o \in RequestFilters \ {Absent}} |->
            [faults \in FaultSets |->
                getToolRunner(tc.name, ParseArguments(tc.arguments), base, Db(Store, faults))]]]

\* faulty variant: a failed invocation leaves no tool record
InvocationEffectSilentOnError(tc, out, last, detected, buffer) ==
    [lastToolResult |-> CaptureResult(last, out),
     detectedFilters |-> IF out.ok
                         THEN DetectFilters(detected, tc.name, ParseArguments(tc.arguments))
                         ELSE detected,
     messages |-> IF out.ok
                  THEN Append(buffer,
                              Message("tool", Some(out.value.summary_for_llm), <<>>, tc.id))
                  ELSE buffer]

\* lines 81-120: what one invocation leaves behind, given what its runner
\* returned or threw: the captured result, the detected filters and the buffer
\* with the invocation's tool record
InvocationEffect(tc, out, last, detected, buffer) ==
    [lastToolResult |-> CaptureResult(last, out),
     detectedFilters |-> IF out.ok
                         THEN DetectFilters(detected, tc.name, ParseArguments(tc.arguments))
                         ELSE detected,
     messages |-> Append(buffer,
                         Message("tool", Some(ToolRecordContent(tc.name, out)), <<>>, tc.id))]

\* lines 81-120 for an invocation of a chat request
ToolCallEffect(tc, faults) ==
    InvocationEffect(tc,
                     ToolOutcome[[name |-> tc.name, arguments |-> tc.arguments]][baseFilters][faults],
                     lastToolResult, detectedFilters, messages)

\* lines 81-120: an invocation that is not the last of its turn
ExecuteToolCall ==
    /\ pc = "executing_tools"
    /\ k < Len(msg.tool_calls)
    /\ \E faults \in FaultSets :
          LET after == ToolCallEffect(msg.tool_calls[k], faults)
          IN /\ lastToolResult' = after.lastToolResult
             /\ detectedFilters' = after.detectedFilters
             /\ messages' = after.messages
    /\ toolRuns' = toolRuns + 1
    /\ k' = k + 1
    /\ UNCHANGED <<pc, baseFilters, filterVars, toolVars, ingestVars, pairVars, uiVars, body, apiKeySet, i, msg, finalAnswer,
                   response, llmCalls>>

\* lines 81-120 and 51: the last invocation of a turn, after which the loop
\* goes round
ExecuteLastToolCall ==
    /\ pc = "executing_tools"
    /\ k = Len(msg.tool_calls)
    /\ LoopContinues(i + 1)
    /\ \E faults \in FaultSets :
          LET after == ToolCallEffect(msg.tool_calls[k], faults)
          IN /\ lastToolResult' = after.lastToolResult
             /\ detectedFilters' = after.detectedFilters
             /\ messages' = after.messages
    /\ toolRuns' = toolRuns + 1
    /\ k' = 0
    /\ i' = i + 1
    /\ pc' = "awaiting_model_turn"
    /\ UNCHANGED <<baseFilters, filterVars, toolVars, ingestVars, pairVars, uiVars, body, apiKeySet, msg, finalAnswer, response,
                   llmCalls>>

\* lines 81-132: the last invocation of the last turn the loop allows, after
\* which the response is sent
ExecuteLastToolCallAtCap ==
    /\ pc = "executing_tools"
    /\ k = Len(msg.tool_calls)
    /\ ~LoopContinues(i + 1)
    /\ \E faults \in FaultSets :
          LET after == ToolCallEffect(msg.tool_calls[k], faults)
          IN /\ lastToolResult' = after.lastToolResult
             /\ detectedFilters' = after.detectedFilters
             /\ messages' = after.messages
             /\ response' = OkResponse(finalAnswer, after.lastToolResult,
                                       after.detectedFilters)
    /\ toolRuns' = toolRuns + 1
    /\ k' = 0
    /\ i' = i + 1
    /\ pc' = "done"
    /\ UNCHANGED <<baseFilters, filterVars, toolVars, ingestVars, pairVars, uiVars, body, apiKeySet, msg, finalAnswer, llmCalls>>

Next ==
    \/ FailOnBody
    \/ RejectRequest
    \/ FailOnClient
    \/ StartLoop
    \/ ModelCallFails
    \/ ModelReturnsNoMessage
    \/ ModelAnswers
    \/ ModelRequestsTools
    \/ ExecuteToolCall
    \/ ExecuteLastToolCall
    \/ ExecuteLastToolCallAtCap

Spec == Init /\ [][Next]_vars

\* every external call returns: a step that is enabled is eventually taken
FairSpec == Spec /\ WF_vars(Next)

----------------------------------------------------------------------------
(* Specification of one tool invocation of a chat request's first turn, for   *)
(* any tool name, arguments, base filters and store; the turn's first         *)
(* invocation, when there is one before it, was filter_campaigns on the       *)
(* email channel                                                              *)

\* three instagram campaigns, of which the second has no offer
InstagramStore == <<LargeStore[1], LargeStore[2], LargeStore[4]>>

Dbs ==
    {Db(rows, faults) : rows \in {InstagramStore, LargeStore},
                        faults \in {{}, {"embed"}, {"rpc"}, {"query"}, {"rpc", "query"}}}

\* the arguments a tool declares (the Params interfaces); the ones it does not
\* declare are absent
ToolArguments(name) ==
    [channel : CASE name = "lookup_campaign" -> {Absent}
                 [] name = "filter_campaigns" ->
                      {Absent, Some(<<>>), Some(<<"instagram">>), Some(<<"tiktok">>)}
                 [] OTHER -> {Absent, Some(<<>>), Some(<<"instagram">>)},
     value_prop : {Absent},
     sentiment : CASE name = "semantic_search" ->
                      {Absent, Some(<<"Premium">>), Some(<<"Urgent">>)}
                   [] name \in {"filter_campaigns", "search_offers"} ->
                      {Absent, Some(<<"Premium">>)}
                   [] OTHER -> {Absent},
     visual_style : {Absent},
     date_range : IF name = "filter_campaigns"
                  THEN {Absent, Some([start |-> 3, end |-> 0])} ELSE {Absent},
     has_offer : IF name = "filter_campaigns"
                 THEN {Absent, Some(TRUE), Some(FALSE)} ELSE {Absent},
     query : IF name \in {"semantic_search", "full_text_search", "search_offers"}
             THEN {Absent, Some("back")} ELSE {Absent},
     embedding_field : IF name = "semantic_search"
                       THEN {Absent, Some("copy_embedding")} ELSE {Absent}]

ToolPayloads(name) ==
    {[valid |-> FALSE, object |-> EmptyArgs]}
       \cup {[valid |-> TRUE, object |-> a] : a \in ToolArguments(name)}

\* the invocations: a tool name, its arguments and the state of the store
ToolInvocations ==
    UNION {[name : {name}, arguments : ToolPayloads(name), db : Dbs] :
              name \in ToolNames \cup {"lookup_campaign"}}

\* the base filters of the invocation: none, the request filters of the chat
\* model, or a date range alone
ToolBaseFilters ==
    {EmptyFilters, [EmptyFilters EXCEPT !.date_range = Some([start |-> 3, end |-> 0])]}
       \cup {Val(o) : o \in RequestFilters \ {Absent}}

PriorCall ==
    [id |-> 1, name |-> "filter_campaigns",
     arguments |-> [valid |-> TRUE, object |-> [EmptyArgs EXCEPT !.channel = Some(<<"email">>)]]]

InitTool ==
    /\ pc = "tool_call"
    /\ toolCall \in ToolInvocations
    /\ toolOut = Returned(NoToolResult)
    /\ baseFilters \in ToolBaseFilters
    /\ body = [kind |-> "object", message |-> [type |-> "string", text |-> "instagram offers"],
               activeFilters |-> Some(baseFilters)]
    /\ apiKeySet = TRUE
    /\ \E prior \in BOOLEAN :
          LET tc == [id |-> IF prior THEN 2 ELSE 1, name |-> toolCall.name,
                     arguments |-> toolCall.arguments]
              calls == IF prior THEN <<PriorCall, tc>> ELSE <<tc>>
              seeded == << Message("system", Some(<<SYSTEM_MESSAGE>>), <<>>, 0),
                           Message("user", Some(<<body.message.text>>), <<>>, 0),
                           Message("assistant", Absent, calls, 0) >>
              before ==
                  IF prior
                  THEN InvocationEffect(PriorCall,
                          getToolRunner(PriorCall.name, ParseArguments(PriorCall.arguments),
                                        baseFilters, Db(toolCall.db.rows, {})),
                          Absent, NoDetectedFilters, seeded)
                  ELSE [lastToolResult |-> Absent, detectedFilters |-> NoDetectedFilters,
                        messages |-> seeded]
          IN /\ msg = Completion("message", Absent, calls)
             /\ k = Len(calls)
             /\ toolRuns = Len(calls) - 1
             /\ lastToolResult = before.lastToolResult
             /\ detectedFilters = before.detectedFilters
             /\ messages = before.messages
    /\ i = 0
    /\ finalAnswer = <<>>
    /\ response = NoResponse
    /\ llmCalls = 1
    /\ campaignList = <<>>
    /\ built = NoToolResult
    /\ newFilters = EmptyFilters
    /\ merged = EmptyFilters
    /\ campaign = NoCampaign
    /\ filters = EmptyFilters
    /\ matched = FALSE
    /\ IngestIdle
    /\ PairIdle
    /\ UiIdle

\* faulty variant: the filters detected from sibling invocations refine the
\* base filters of the next one
RunnerBaseRefined(original, detected) ==
    mergeFilters(original, [channel |-> detected.channel, value_prop |-> detected.value_prop,
                            sentiment |-> detected.sentiment,
                            visual_style |-> detected.visual_style, date_range |-> Absent])

\* route.ts line 94: the base filters handed to the runner
RunnerBase(original, detected) == original

\* route.ts lines 81-120 for the invocation msg.tool_calls[k]
InvokeTool ==
    /\ pc = "tool_call"
    /\ LET out == getToolRunner(toolCall.name, ParseArguments(toolCall.arguments),
                                RunnerBase(baseFilters, detectedFilters), toolCall.db)
           after == InvocationEffect(msg.tool_calls[k], out, lastToolResult, detectedFilters,
                                     messages)
       IN /\ toolOut' = out
          /\ lastToolResult' = after.lastToolResult
          /\ detectedFilters' = after.detectedFilters
          /\ messages' = after.messages
    /\ toolRuns' = toolRuns + 1
    /\ pc' = "tool_return"
    /\ UNCHANGED <<baseFilters, filterVars, ingestVars, pairVars, uiVars, toolCall, campaignList, built, body,
                   apiKeySet, i, msg, k, finalAnswer, response, llmCalls>>

NextTool == InvokeTool

SpecTool == InitTool /\ [][NextTool]_vars

----------------------------------------------------------------------------
(* Specification of one ingestion run: scripts/ingest.ts.  run() processes    *)
(* the image groups one after the other; processImageGroup analyses a group,  *)
(* uploads its images, inserts the campaign row, embeds three texts and       *)
(* inserts the vector row, and its catch turns a failure of any step into a   *)
(* failed result for the group.                                               *)

\* the largest number of image groups of a run
MaxGroups == 3

\* lines 41-82, groupImagesByBaseName: the groups of a run, at least one, with
\* distinct base names and one or two images each
ImageGroupLists ==
    {[n \in 1..m |-> [baseName |-> n, images |-> 1 + (n % 2)]] : m \in 1..MaxGroups}

\* the store before the run: empty, or one campaign ingested earlier with its
\* vector row
StoresBeforeRun ==
    {[campaigns |-> {}, vectors |-> {}],
     [campaigns |-> {[id |-> 1, baseName |-> 0]}, vectors |-> {[campaign_id |-> 1]}]}

\* the id the store gives a new campaign row (rows are never deleted here)
FreshId(table) == Cardinality(table) + 1

\* lines 203-210: the entry run() records for a processed group
GroupResult(group, success, id, error) ==
    [baseName |-> group.baseName, imageCount |-> group.images, success |-> success,
     campaignId |-> id, error |-> error]

InitIngest ==
    /\ pc = "ingest_analyze"
    /\ imageGroups \in ImageGroupLists
    /\ analysis = FALSE
    /\ campaignId = 0
    /\ \E store \in StoresBeforeRun :
          campaignsTable = store.campaigns /\ campaign_vectors = store.vectors
    /\ results = <<>>
    /\ baseFilters = EmptyFilters
    /\ newFilters = EmptyFilters
    /\ merged = EmptyFilters
    /\ campaign = NoCampaign
    /\ filters = EmptyFilters
    /\ matched = FALSE
    /\ LoopIdle
    /\ ToolIdle
    /\ PairIdle
    /\ UiIdle

\* lines 166-169 and 203-210: the catch of processImageGroup returns a failed
\* result, run() records it and goes on with the next group
CatchAndRecord(error) ==
    /\ results' = Append(results, GroupResult(Head(imageGroups), FALSE, 0, error))
    /\ imageGroups' = Tail(imageGroups)
    /\ analysis' = FALSE
    /\ campaignId' = 0
    /\ pc' = IF Tail(imageGroups) = <<>> THEN "ingest_finished" ELSE "ingest_analyze"

\* line 113: analyzeImage returns
AnalyzeImages ==
    /\ pc = "ingest_analyze"
    /\ analysis' = TRUE
    /\ pc' = "ingest_upload"
    /\ UNCHANGED <<imageGroups, campaignId, campaignsTable, campaign_vectors, results>>
    /\ UNCHANGED <<baseFilters, filterVars, loopVars, toolVars, pairVars, uiVars>>

\* line 113: analyzeImage throws
AnalyzeImagesFails ==
    /\ pc = "ingest_analyze"
    /\ CatchAndRecord("Failed to analyze image")
    /\ UNCHANGED <<campaignsTable, campaign_vectors>>
    /\ UNCHANGED <<baseFilters, filterVars, loopVars, toolVars, pairVars, uiVars>>

\* lines 117-119: every upload of the group succeeds
UploadImages ==
    /\ pc = "ingest_upload"
    /\ pc' = "ingest_insert"
    /\ UNCHANGED ingestVars
    /\ UNCHANGED <<baseFilters, filterVars, loopVars, toolVars, pairVars, uiVars>>

\* lines 117-119: one upload of the group fails and Promise.all rejects
UploadImagesFails ==
    /\ pc = "ingest_upload"
    /\ CatchAndRecord("Failed to upload image")
    /\ UNCHANGED <<campaignsTable, campaign_vectors>>
    /\ UNCHANGED <<baseFilters, filterVars, loopVars, toolVars, pairVars, uiVars>>

\* lines 125-129: the campaign row is inserted and returned
InsertCampaign ==
    /\ pc = "ingest_insert"
    /\ campaignId' = FreshId(campaignsTable)
    /\ campaignsTable' =
          campaignsTable \cup {[id |-> FreshId(campaignsTable),
                                baseName |-> Head(imageGroups).baseName]}
    /\ pc' = "ingest_embed"
    /\ UNCHANGED <<imageGroups, analysis, campaign_vectors, results>>
    /\ UNCHANGED <<baseFilters, filterVars, loopVars, toolVars, pairVars, uiVars>>

\* lines 131-137: the insert reports an error or returns no row
InsertCampaignFails ==
    /\ pc = "ingest_insert"
    /\ CatchAndRecord("Failed to insert campaign")
    /\ UNCHANGED <<campaignsTable, campaign_vectors>>
    /\ UNCHANGED <<baseFilters, filterVars, loopVars, toolVars, pairVars, uiVars>>

\* lines 145-149: the three embedText calls return
GenerateEmbeddings ==
    /\ pc = "ingest_embed"
    /\ pc' = "ingest_vectors"
    /\ UNCHANGED ingestVars
    /\ UNCHANGED <<baseFilters, filterVars, loopVars, toolVars, pairVars, uiVars>>

\* lines 145-149: an embedText call throws and Promise.all rejects; the catch
\* (lines 166-169) does not touch the campaign row inserted before
GenerateEmbeddingsFails ==
    /\ pc = "ingest_embed"
    /\ CatchAndRecord("Failed to create embedding")
    /\ UNCHANGED <<campaignsTable, campaign_vectors>>
    /\ UNCHANGED <<baseFilters, filterVars, loopVars, toolVars, pairVars, uiVars>>

\* lines 153-165 and 203-210: the vector row is inserted and the group's
\* success is recorded
InsertVectors ==
    /\ pc = "ingest_vectors"
    /\ campaign_vectors' = campaign_vectors \cup {[campaign_id |-> campaignId]}
    /\ results' = Append(results, GroupResult(Head(imageGroups), TRUE, campaignId, ""))
    /\ imageGroups' = Tail(imageGroups)
    /\ analysis' = FALSE
    /\ campaignId' = 0
    /\ pc' = IF Tail(imageGroups) = <<>> THEN "ingest_finished" ELSE "ingest_analyze"
    /\ UNCHANGED campaignsTable
    /\ UNCHANGED <<baseFilters, filterVars, loopVars, toolVars, pairVars, uiVars>>

\* lines 160-162: the vector insert reports an error; the catch does not touch
\* the campaign row inserted before
InsertVectorsFails ==
    /\ pc = "ingest_vectors"
    /\ CatchAndRecord("Failed to insert vectors")
    /\ UNCHANGED <<campaignsTable, campaign_vectors>>
    /\ UNCHANGED <<baseFilters, filterVars, loopVars, toolVars, pairVars, uiVars>>

NextIngest ==
    \/ AnalyzeImages
    \/ AnalyzeImagesFails
    \/ UploadImages
    \/ UploadImagesFails
    \/ InsertCampaign
    \/ InsertCampaignFails
    \/ GenerateEmbeddings
    \/ GenerateEmbeddingsFails
    \/ InsertVectors
    \/ InsertVectorsFails

SpecIngest == InitIngest /\ [][NextIngest]_vars

----------------------------------------------------------------------------
(* Claims about an ingestion run *)

\* the run has processed every group (line 212)
RunFinished == pc = "ingest_finished"

\* the vector rows of a campaign
VectorsOf(id) == {v \in campaign_vectors : v.campaign_id = id}

\* C20 (as stated in the specification): after any ingestion run, including
\* runs in which the analysis, an upload, the embedding generation or the
\* vector insert fails for some group, every row of campaigns has exactly one
\* row of campaign_vectors, and every row of campaign_vectors references an
\* existing row of campaigns.
C20_EveryCampaignHasOneEmbedding ==
    RunFinished =>
        /\ \A c \in campaignsTable : Cardinality(VectorsOf(c.id)) = 1
        /\ \A v \in campaign_vectors : \E c \in campaignsTable : c.id = v.campaign_id

----------------------------------------------------------------------------
(* Claims about one tool invocation *)

ToolReturned == pc = "tool_return"

\* the invocation's arguments after JSON.parse
ToolParams == ParseArguments(toolCall.arguments)

\* the tool record of the invocation
ToolRecord == messages[Len(messages)]

\* the empty tool result
EmptyToolResult ==
    [count |-> 0, summary_for_llm |-> <<"No campaigns found.">>, campaigns |-> <<>>]

\* the rows of a store that satisfy the non-empty lists and the date range of
\* filter set f, in the store's order
RowsSatisfying(rows, f) ==
    SelectSeq(rows, LAMBDA c : RowMatchesLists(c, f) /\ RowMatchesRange(c, f))

\* the offer is neither null nor blank
HasOffer(c) == c.offer # Null /\ c.offer \notin {"", " ", "  "}

\* the list arguments of the invocation merged onto the base filters
MergedLists ==
    mergeFilters(baseFilters,
                 [channel |-> ToolParams.channel, value_prop |-> ToolParams.value_prop,
                  sentiment |-> ToolParams.sentiment, visual_style |-> ToolParams.visual_style,
                  date_range |-> Absent])

\* C13: when the store call of full_text_search or of search_offers reports an
\* error, the tool returns, without raising, exactly the empty tool result
\* (count 0, no campaign, "No campaigns found."), which is buildToolResult of
\* the empty list, and the loop records it as a tool result like any other: it
\* is captured and its summary is the content of the tool record.
C13_StoreErrorYieldsEmptyResult ==
    (ToolReturned
       /\ \/ toolCall.name = "full_text_search" /\ "rpc" \in toolCall.db.faults
          \/ toolCall.name = "search_offers" /\ "query" \in toolCall.db.faults) =>
        /\ toolOut.ok
        /\ toolOut.value = EmptyToolResult
        /\ toolOut.value = buildToolResult(<<>>)
        /\ lastToolResult = Some(EmptyToolResult)
        /\ ToolRecord.role = "tool"
        /\ ToolRecord.tool_call_id = msg.tool_calls[k].id
        /\ ToolRecord.content = Some(<<"No campaigns found.">>)

\* C13 witness: full_text_search ran against the largest store, whose copy
\* matches the query, with a failing store call, after an earlier invocation
\* had captured campaigns; the empty result replaced them.
C13_Witness ==
    /\ ToolReturned
    /\ toolCall.name = "full_text_search" /\ toolCall.db.faults = {"rpc"}
    /\ toolCall.db.rows = LargeStore /\ IsPresent(ToolParams.query)
    /\ k = 2 /\ messages[4].content # Some(<<"No campaigns found.">>)
    /\ lastToolResult = Some(EmptyToolResult)

\* C14: filter_campaigns with has_offer = true returns exactly the campaigns
\* fetched by the filtered query (the rows satisfying the merged filters, cut
\* at the store cap of 50) whose offer is neither null nor blank, in fetched
\* order, and count is the length of that list; with has_offer false or absent
\* it returns every fetched campaign. With channel = ["instagram"] over three
\* instagram campaigns of which one has no offer, count is 2.
C14_HasOfferFiltersAfterFetch ==
    (ToolReturned /\ toolCall.name = "filter_campaigns" /\ "query" \notin toolCall.db.faults) =>
        LET m == [MergedLists EXCEPT !.date_range =
                     IF IsPresent(ToolParams.date_range) THEN ToolParams.date_range
                     ELSE baseFilters.date_range]
            all == RowsSatisfying(toolCall.db.rows, m)
            fetched == SubSeq(all, 1, IF Len(all) < 50 THEN Len(all) ELSE 50)
        IN /\ toolOut.ok
           /\ toolOut.value.count = Len(toolOut.value.campaigns)
           /\ ToolParams.has_offer = Some(TRUE)
                 => toolOut.value.campaigns = SelectSeq(fetched, HasOffer)
           /\ ToolParams.has_offer # Some(TRUE) => toolOut.value.campaigns = fetched
           /\ (toolCall.db.rows = InstagramStore /\ baseFilters = EmptyFilters
                 /\ ToolParams = [EmptyArgs EXCEPT !.channel = Some(<<"instagram">>),
                                                   !.has_offer = Some(TRUE)])
                 => (toolOut.value.count = 2 /\ Len(toolOut.value.campaigns) = 2)

\* C14 witness: over the largest store, 50 campaigns were fetched and the ones
\* with a null or a blank offer were dropped from them: 17 are left, although
\* 18 campaigns of the store have an offer.
C14_Witness ==
    /\ ToolReturned /\ toolCall.name = "filter_campaigns" /\ toolCall.db.faults = {}
    /\ toolCall.db.rows = LargeStore /\ baseFilters = EmptyFilters
    /\ ToolParams = [EmptyArgs EXCEPT !.has_offer = Some(TRUE)]
    /\ toolOut.value.count = 17
    /\ Len(SelectSeq(LargeStore, HasOffer)) = 18

\* C15: when the similarity-search store call fails, semantic_search does not
\* raise: after the embedding call and the failed similarity search it runs
\* the filtered query with the filters given to the similarity search (the
\* non-empty merged lists, without a date range) and returns the tool result built from its rows;
\* it raises only if the filtered query fails too.
C15_FallsBackToFilteredQuery ==
    (ToolReturned /\ toolCall.name = "semantic_search"
       /\ "rpc" \in toolCall.db.faults /\ "embed" \notin toolCall.db.faults) =>
        LET all == RowsSatisfying(toolCall.db.rows, [MergedLists EXCEPT !.date_range = Absent])
            fetched == SubSeq(all, 1, IF Len(all) < 50 THEN Len(all) ELSE 50)
        IN /\ toolOut.calls = <<"embeddings.create", "rpc search_campaigns", "from campaigns">>
           /\ toolOut.ok <=> "query" \notin toolCall.db.faults
           /\ toolOut.ok => toolOut.value = buildToolResult(fetched)
           /\ ~toolOut.ok => toolOut.error = "Query failed"

\* C15 witness: semantic_search fell back and returned more campaigns than the
\* similarity search ever returns (its cap is 20).
C15_Witness ==
    /\ ToolReturned /\ toolCall.name = "semantic_search" /\ toolCall.db.faults = {"rpc"}
    /\ toolOut.ok /\ toolOut.value.count > 20
    /\ NonEmptyList(ToolParams.channel)

\* C16: when the embedding call fails, the semantic_search invocation fails
\* with the embedding error: no store call is made (neither the similarity
\* search nor a filtered query) and no tool result is returned; the loop
\* records the error string as the invocation's tool record, keeps the result
\* captured before and the detected filters, and sends no error response.
C16_EmbeddingFailureFailsInvocationOnly ==
    [][(pc = "tool_call" /\ toolCall.name = "semantic_search"
          /\ "embed" \in toolCall.db.faults) =>
         /\ ~toolOut'.ok
         /\ toolOut'.error = "Failed to create embedding"
         /\ toolOut'.calls = <<"embeddings.create">>
         /\ toolOut'.value = NoToolResult
         /\ messages' = Append(messages,
                 Message("tool",
                         Some(<<"Error running semantic_search: Failed to create embedding.">>),
                         <<>>, msg.tool_calls[k].id))
         /\ lastToolResult' = lastToolResult
         /\ detectedFilters' = detectedFilters
         /\ pc' = "tool_return" /\ response' = NoResponse]_vars

\* C16 witness: the embedding call of a semantic_search invocation failed
\* after an earlier invocation had captured campaigns, which are still held.
C16_Witness ==
    /\ ToolReturned /\ toolCall.name = "semantic_search" /\ toolCall.db.faults = {"embed"}
    /\ ~toolOut.ok
    /\ k = 2 /\ IsPresent(lastToolResult) /\ Val(lastToolResult).count > 0

\* C18 (as stated in the specification): the detected filters record, per
\* list field, the list passed to the latest filter_campaigns or search_offers
\* invocation that supplied the field: an invocation of either tool that
\* returns overwrites the fields it supplies and keeps the others, and an
\* invocation of any other tool, or one that fails, leaves them as they were.
C18_BothToolsAreEchoed ==
    [][pc = "tool_call" =>
         detectedFilters' =
            IF toolOut'.ok /\ toolCall.name \in {"filter_campaigns", "search_offers"}
            THEN [f \in ListFields |->
                     IF IsPresent(ToolParams[f]) THEN ToolParams[f] ELSE detectedFilters[f]]
            ELSE detectedFilters]_vars

\* C22: within a chat request the tool invocations run one at a time in the
\* order the model listed them: the invocation executed is msg.tool_calls[k],
\* the invocations listed before it have left their tool records and it leaves
\* exactly one more; and every invocation receives the request's original
\* activeFilters as base filters, whatever a sibling invocation was given or
\* detected: the base filters never change.
C22_InOrderWithOriginalBase ==
    [][pc = "tool_call" =>
         /\ toolRuns = k - 1 /\ toolRuns' = k
         /\ \A j \in 1..(k - 1) :
               /\ messages[3 + j].role = "tool"
               /\ messages[3 + j].tool_call_id = msg.tool_calls[j].id
         /\ Len(messages) = 3 + (k - 1)
         /\ Len(messages') = Len(messages) + 1
         /\ messages'[Len(messages')].role = "tool"
         /\ messages'[Len(messages')].tool_call_id = msg.tool_calls[k].id
         /\ msg.tool_calls[k].name = toolCall.name
         /\ toolOut' = getToolRunner(toolCall.name, ToolParams, Val(body.activeFilters),
                                     toolCall.db)
         /\ baseFilters' = baseFilters /\ baseFilters = Val(body.activeFilters)
         /\ body' = body /\ msg' = msg]_vars

\* C22 witness: the turn's first invocation was filter_campaigns on the email
\* channel; the second one, filter_campaigns without channel and without base
\* filters, returned 50 campaigns of all channels, not the 17 email campaigns.
C22_Witness ==
    /\ ToolReturned /\ k = 2 /\ toolCall.name = "filter_campaigns"
    /\ toolCall.db = Db(LargeStore, {})
    /\ baseFilters = EmptyFilters /\ ToolParams = EmptyArgs
    /\ detectedFilters.channel = Some(<<"email">>)
    /\ messages[4].tool_call_id = 1 /\ messages[5].tool_call_id = 2
    /\ toolOut.value.count = 50
    /\ \E n \in 1..50 : toolOut.value.campaigns[n].channel = "instagram"

\* the five filter fields of the invocation's arguments merged onto the base
\* filters
MergedFilters ==
    mergeFilters(baseFilters,
                 [channel |-> ToolParams.channel, value_prop |-> ToolParams.value_prop,
                  sentiment |-> ToolParams.sentiment, visual_style |-> ToolParams.visual_style,
                  date_range |-> ToolParams.date_range])

\* the campaigns the invocation returned
ReturnedCampaigns == toolOut.value.campaigns

\* C25 (as stated in the specification): for semantic_search, filter_campaigns
\* and search_offers every campaign of the returned tool result satisfies every
\* field of merge(base filters, tool arguments), a date range carried by the
\* base filters included.
C25_ResultSatisfiesMergedFilters ==
    (ToolReturned /\ toolOut.ok
       /\ toolCall.name \in {"semantic_search", "filter_campaigns", "search_offers"}) =>
        \A n \in 1..Len(ReturnedCampaigns) :
            /\ RowMatchesLists(ReturnedCampaigns[n], MergedFilters)
            /\ RowMatchesRange(ReturnedCampaigns[n], MergedFilters)

\* a campaign passes the sentiment and visual-style lists of a filter set; a
\* null column passes no list
PassesImagery(c, f) ==
    /\ NonEmptyList(f.sentiment) =>
          (c.imagery_sentiment # Null
             /\ \E j \in 1..Len(Val(f.sentiment)) : Val(f.sentiment)[j] = c.imagery_sentiment)
    /\ NonEmptyList(f.visual_style) =>
          (c.imagery_visual_style # Null
             /\ \E j \in 1..Len(Val(f.visual_style)) :
                   Val(f.visual_style)[j] = c.imagery_visual_style)

\* what the store call of the semantic_search invocation answered: the
\* similarity search, or the filtered query when the similarity search failed
StoreAnswer ==
    LET f == semanticSearchFilters(ToolParams, baseFilters)
        field == IF IsPresent(ToolParams.embedding_field) THEN Val(ToolParams.embedding_field)
                 ELSE "value_prop_embedding"
    IN IF "rpc" \in toolCall.db.faults
       THEN Limit(RowsSatisfying(toolCall.db.rows, f), 50)
       ELSE search_campaigns(toolCall.db.rows, field, 70, 20, f.channel, f.value_prop)

\* C26: every campaign of a semantic_search result satisfies the merged
\* sentiment and visual-style lists (a campaign whose sentiment or visual style
\* is null is dropped when that field is constrained), on the similarity path
\* and on the fallback path, although the similarity search is given only the
\* channel and value-prop lists; the result holds the store's rows that pass,
\* in the store's order.
C26_ImageryFiltersReapplied ==
    (ToolReturned /\ toolOut.ok /\ toolCall.name = "semantic_search") =>
        /\ \A n \in 1..Len(ReturnedCampaigns) :
              PassesImagery(ReturnedCampaigns[n], MergedLists)
        /\ ReturnedCampaigns =
              SelectSeq(StoreAnswer, LAMBDA c : PassesImagery(c, MergedLists))

\* C26 witness: on the similarity path the store answered 20 campaigns, 3 of
\* them without a sentiment; these were dropped and the 17 others are returned.
C26_Witness ==
    /\ ToolReturned /\ toolOut.ok /\ toolCall.name = "semantic_search"
    /\ toolCall.db.faults = {}
    /\ ToolParams.sentiment = Some(<<"Urgent">>)
    /\ Len(StoreAnswer) = 20
    /\ \E n \in 1..20 : StoreAnswer[n].imagery_sentiment = Null
    /\ Len(ReturnedCampaigns) = 17

\* the campaigns whose copy matches the query text, restricted to a channel
\* list when there is one, cut at the store cap of 50
TextMatches(rows, query, channels) ==
    LET hit(c) ==
            /\ IsPresent(query) /\ TextRank[c.id] > 0
            /\ IsPresent(channels) =>
                  (c.channel # Null
                     /\ \E j \in 1..Len(Val(channels)) : Val(channels)[j] = c.channel)
        all == SelectSeq(rows, hit)
    IN SubSeq(all, 1, IF Len(all) < 50 THEN Len(all) ELSE 50)

\* C27 (as stated in the specification): full_text_search restricts the store
\* query to the list of the channel argument when the argument is given,
\* otherwise to the channel list of the base filters, otherwise to no channel;
\* no other field of the base filters affects the query.
C27_ChannelArgumentWhenGiven ==
    (ToolReturned /\ toolCall.name = "full_text_search" /\ "rpc" \notin toolCall.db.faults) =>
        ReturnedCampaigns =
            TextMatches(toolCall.db.rows, ToolParams.query,
                        IF IsPresent(ToolParams.channel) THEN ToolParams.channel
                        ELSE baseFilters.channel)

\* C27 (amended): full_text_search restricts the store query to the list of
\* the channel argument when the argument is a non-empty list, otherwise (no
\* argument, or an empty list) to the channel list of the base filters,
\* otherwise to no channel; the two lists are never unioned or intersected and
\* no other field of the base filters affects the query.
C27_ChannelArgumentWhenNonEmpty ==
    (ToolReturned /\ toolCall.name = "full_text_search" /\ "rpc" \notin toolCall.db.faults) =>
        /\ toolOut.ok
        /\ ReturnedCampaigns =
              TextMatches(toolCall.db.rows, ToolParams.query,
                          IF NonEmptyList(ToolParams.channel) THEN ToolParams.channel
                          ELSE baseFilters.channel)

\* C27 witness: the argument names instagram, the base filters hold email and
\* instagram, and the copy of 17 email campaigns matches the query: none is
\* returned.
C27_Witness ==
    /\ ToolReturned /\ toolCall.name = "full_text_search" /\ toolCall.db.faults = {}
    /\ toolCall.db.rows = LargeStore /\ IsPresent(ToolParams.query)
    /\ ToolParams.channel = Some(<<"instagram">>)
    /\ baseFilters.channel = Some(<<"email", "instagram">>)
    /\ Len(TextMatches(LargeStore, ToolParams.query, baseFilters.channel)) = 17
    /\ ReturnedCampaigns = <<>>

\* part_002 lines 432-449: the controlled vocabularies
CHANNEL_VALUES == {"facebook", "instagram", "twitter", "email", "direct_mail"}
VALUE_PROP_VALUES ==
    {"No Fee / No Minimum", "Cash Back / Rewards", "Travel Benefits", "High-Yield Savings",
     "Credit Building", "Security / Fraud Protection"}
SENTIMENT_VALUES == {"Aspirational", "Trust-Building", "Urgent", "Playful", "Premium"}
VISUAL_STYLE_VALUES ==
    {"Lifestyle Photography", "Minimalist Graphic", "Illustration", "Product-Centric",
     "Text-Heavy", "Abstract / Conceptual"}

Vocabulary ==
    [channel |-> CHANNEL_VALUES, value_prop |-> VALUE_PROP_VALUES,
     sentiment |-> SENTIMENT_VALUES, visual_style |-> VISUAL_STYLE_VALUES]

\* the list filters the invocation hands to its store query
StoreFilters ==
    CASE toolCall.name = "semantic_search" -> semanticSearchFilters(ToolParams, baseFilters)
      [] toolCall.name = "filter_campaigns" -> filterCampaignsFilters(ToolParams, baseFilters)
      [] toolCall.name = "search_offers" -> searchOffersMerged(ToolParams, baseFilters)
      [] toolCall.name = "full_text_search" ->
            [EmptyFilters EXCEPT !.channel = fullTextFilterChannels(ToolParams, baseFilters)]
      [] OTHER -> EmptyFilters

\* the invocation reached a store query
StoreQueried ==
    \E n \in 1..Len(toolOut.calls) :
        toolOut.calls[n] \in {"from campaigns", "rpc search_campaigns",
                              "rpc search_campaigns_by_text"}

\* C28 (as stated in the specification): no tool passes to a store query a
\* channel, value-prop, sentiment or visual-style value outside the field's
\* controlled vocabulary.
C28_StoreGetsVocabularyOnly ==
    (ToolReturned /\ StoreQueried) =>
        \A f \in ListFields :
            IsPresent(StoreFilters[f]) =>
                \A j \in 1..Len(Val(StoreFilters[f])) : Val(StoreFilters[f])[j] \in Vocabulary[f]

----------------------------------------------------------------------------
(* Claims about the chat request *)

\* the request was answered with status 200
Answered == pc = "done" /\ response.status = 200

\* C17 (as stated in the specification): in every chat response the detected
\* filters are either absent or a non-empty filter set: they are present only
\* if a field was detected, and every field they carry is a non-empty list.
C17_DetectedFiltersHaveNoEmptyList ==
    Answered =>
        \/ response.detectedFilters = Absent /\ "detectedFilters" \notin response.keys
        \/ /\ IsPresent(response.detectedFilters)
           /\ \E f \in ListFields : IsPresent(Val(response.detectedFilters)[f])
           /\ \A f \in ListFields :
                 IsPresent(Val(response.detectedFilters)[f])
                    => Val(Val(response.detectedFilters)[f]) # <<>>

\* C19: every response of status 200 carries exactly three suggestions, decided
\* by one bit: the first three entries of the results pool when the count of
\* the last captured tool result (the response's total) is greater than 0,
\* otherwise (count 0, or nothing captured) the first three entries of the
\* no-results pool; the two pools share no entry.
C19_ThreeSuggestionsFromOneBit ==
    Answered =>
        /\ Len(response.suggestions) = 3
        /\ response.total = (IF IsPresent(lastToolResult) THEN Val(lastToolResult).count ELSE 0)
        /\ response.total > 0 => response.suggestions = SubSeq(RESULTS_POOL, 1, 3)
        /\ response.total = 0 => response.suggestions = SubSeq(NO_RESULTS_POOL, 1, 3)
        /\ response.suggestions[1] = (IF response.total > 0
                                      THEN "Show me the most common value propositions"
                                      ELSE "Show me campaigns emphasizing travel benefits")

\* C19 witness: a tool result with count 0 was captured and the response
\* carries the no-results suggestions.
C19_Witness ==
    /\ Answered /\ IsPresent(lastToolResult) /\ Val(lastToolResult).count = 0
    /\ response.suggestions = NO_RESULTS_POOL

\* the text a message carries: its content, '' when the content is null
ContentText(m) == IF IsPresent(m.content) THEN Val(m.content) ELSE <<>>

\* the latest completion is a message that requests no tool
AnsweredWithoutTools == msg.kind = "message" /\ msg.tool_calls = <<>>

\* the latest completion is a message that requests tools
RequestedTools == msg.kind = "message" /\ Len(msg.tool_calls) > 0

\* a tool record holding a tool result's summary (its first line is the header
\* of buildToolResult), as opposed to an error string
SummaryHeaders ==
    {"No campaigns found."}
       \cup {"Found " \o ToString(n) \o " campaign(s)." : n \in 1..MaxStoreRows}

IsSummary(content) == Val(content)[1] \in SummaryHeaders

ToolRecords == {j \in 1..Len(messages) : messages[j].role = "tool"}
CapturedRecords == {j \in ToolRecords : IsSummary(messages[j].content)}
FailedRecords == ToolRecords \ CapturedRecords

\* the error string of an invocation of tool name that failed with message e
ErrorString(name, e) == Some(<<"Error running " \o name \o ": " \o e \o ".">>)

\* the first turn of the request asked for a tool the tool layer does not know
UnknownToolOnFirstTurn ==
    /\ Len(messages) >= 3
    /\ messages[3].role = "assistant"
    /\ \E j \in 1..Len(messages[3].tool_calls) :
          messages[3].tool_calls[j].name \notin ToolNames

C2_AtMostFiveCallsThenDone ==
    /\ [](llmCalls <= 5)
    /\ [](pc = "awaiting_model_turn"
             => <>((pc = "done" /\ response.status = 200) \/ msg.kind = "error"))

\* C2 witness: a request that ended at the cap after a failed invocation, an
\* unknown tool and a malformed payload.
C2_Witness ==
    /\ pc = "done" /\ llmCalls = 5 /\ response.status = 200
    /\ FailedRecords # {}
    /\ \E j \in 1..Len(messages) :
          /\ messages[j].role = "assistant"
          /\ \E n \in 1..Len(messages[j].tool_calls) : ~messages[j].tool_calls[n].arguments.valid

\* C3: an invocation that fails (unknown tool, or an error while the tool runs)
\* never ends the request: its error string becomes the content of its tool
\* record, the next invocation of the turn runs, after the last one the model
\* is asked again, and a request whose first turn asked for an unknown tool and
\* whose second turn is an answer ends in done with that answer.
C3_ToolFailureIsRecoverable ==
    /\ [][pc = "executing_tools" =>
            LET tc == msg.tool_calls[k]
                rec == messages'[Len(messages')]
                failed == ~IsSummary(rec.content)
            IN /\ Len(messages') = Len(messages) + 1
               /\ rec.role = "tool" /\ rec.tool_call_id = tc.id
               /\ pc' # "failed" /\ response'.status # 500
               /\ tc.name \notin ToolNames
                     => rec.content = ErrorString(tc.name, "Unknown tool: " \o tc.name)
               /\ failed => \E e \in {"Unknown tool: " \o tc.name, "Query failed",
                                      "Failed to create embedding"} :
                                rec.content = ErrorString(tc.name, e)
               /\ (failed /\ k < Len(msg.tool_calls))
                     => (pc' = "executing_tools" /\ k' = k + 1)
               /\ (failed /\ k = Len(msg.tool_calls) /\ llmCalls < 5)
                     => pc' = "awaiting_model_turn"]_vars
    /\ []((pc = "done" /\ llmCalls = 2 /\ UnknownToolOnFirstTurn /\ AnsweredWithoutTools
            /\ trim(ContentText(msg)) # <<>>)
             => (response.status = 200 /\ response.response = trim(ContentText(msg))))

\* C3 witness: the first turn asked for an unknown tool and then for a known
\* one, which ran and was captured; the second turn answered.
C3_Witness ==
    /\ pc = "done" /\ llmCalls = 2 /\ AnsweredWithoutTools
    /\ Len(messages) = 5
    /\ messages[3].tool_calls[1].name \notin ToolNames
    /\ messages[4].content = ErrorString("lookup_campaign", "Unknown tool: lookup_campaign")
    /\ 5 \in CapturedRecords
    /\ response.response = <<"a">>

\* C4: a finished request answers with the campaigns and the count of the
\* latest invocation that returned a result (the total is that result's
\* count), and with no campaign and 0 when none did; an invocation that fails
\* later changes neither.
C4_ResponseCarriesLastCaptured ==
    pc = "done" =>
        /\ response.total = Len(response.campaigns)
        /\ CapturedRecords = {} => (response.campaigns = <<>> /\ response.total = 0)
        /\ CapturedRecords # {} =>
              LET last == CHOOSE j \in CapturedRecords : \A n \in CapturedRecords : n <= j
              IN buildToolResult(response.campaigns).summary_for_llm
                    = Val(messages[last].content)

\* C4 witness: two invocations returned different results and a later one
\* failed; the response carries campaigns.
C4_Witness ==
    /\ pc = "done" /\ response.total > 0
    /\ \E a, b \in CapturedRecords, c \in FailedRecords :
          /\ a < b /\ b < c
          /\ messages[a].content # messages[b].content
          /\ \A n \in CapturedRecords : n <= b

\* C5 (as stated in the specification): when the first turn requests no tool,
\* the request ends after 1 model invocation, runs no tool, and answers with
\* the model's text verbatim.
C5_FirstAnswerVerbatim ==
    (pc = "done" /\ llmCalls = 1 /\ AnsweredWithoutTools /\ IsPresent(msg.content)) =>
        /\ toolRuns = 0 /\ ToolRecords = {}
        /\ response.response = Val(msg.content)

\* C5 (amended): when the first turn requests no tool, the request ends after
\* 1 model invocation and runs no tool; the response text is the model's text
\* with leading and trailing whitespace removed, or the fixed "not enough data"
\* message when that text is null, empty or blank, or the fixed "couldn't
\* generate a response" message when the completion carries no message.
C5_FirstAnswerTrimmedOrFallback ==
    /\ (pc = "awaiting_model_turn" /\ llmCalls = 0) => (toolRuns = 0 /\ ToolRecords = {})
    /\ (pc = "done" /\ llmCalls = 1) =>
          /\ toolRuns = 0 /\ ToolRecords = {}
          /\ response.status = 200
          /\ msg.kind = "no_message" => response.response = NO_MESSAGE_ANSWER
          /\ (AnsweredWithoutTools /\ trim(ContentText(msg)) = <<>>)
                => response.response = NO_DATA_ANSWER
          /\ (AnsweredWithoutTools /\ trim(ContentText(msg)) # <<>>)
                => response.response = trim(ContentText(msg))

\* C5 witness: a first-turn answer with leading whitespace, returned trimmed.
C5_Witness ==
    /\ pc = "done" /\ llmCalls = 1 /\ AnsweredWithoutTools
    /\ msg.content = Some(<<" ", "a">>)
    /\ response.response = <<"a">>

\* the request's message is missing, empty or not a string
MessageMissingEmptyOrNotString ==
    \/ body.kind = "null"
    \/ body.kind = "object" /\ (body.message.type # "string" \/ body.message.text = "")

C7_ModelFailureAborts ==
    /\ [](msg.kind = "error" =>
            /\ pc = "failed"
            /\ response.status = 500
            /\ response.keys = {"error", "message"}
            /\ response.response = <<>> /\ response.campaigns = <<>> /\ response.total = 0)
    /\ [][msg.kind = "error" => (toolRuns' = toolRuns /\ llmCalls' = llmCalls)]_vars

\* C7 witness: the model call of a later iteration failed after a tool had
\* returned campaigns.
C7_Witness ==
    /\ msg.kind = "error" /\ llmCalls >= 2
    /\ IsPresent(lastToolResult) /\ Val(lastToolResult).count > 0
    /\ response.status = 500

\* the records of the buffer that follow record j up to the next assistant
\* record: the tool records of the turn that assistant record j requested
RECURSIVE TurnLength(_, _)
TurnLength(buffer, j) ==
    IF j + 1 > Len(buffer) \/ buffer[j + 1].role # "tool" THEN 0
    ELSE 1 + TurnLength(buffer, j + 1)

\* what the tool record of invocation tc may hold: the summary_for_llm the
\* runner returned or the error string of what it threw
RecordContents(tc) ==
    {Some(ToolRecordContent(tc.name,
              getToolRunner(tc.name, ParseArguments(tc.arguments), baseFilters,
                            Db(Store, faults)))) : faults \in FaultSets}

\* every tool turn of the buffer is complete: the assistant record of the
\* requests and one tool record per requested invocation, in request order
CompleteTurns(buffer) ==
    \A j \in 3..Len(buffer) :
        /\ buffer[j].role \in {"assistant", "tool"}
        /\ buffer[j].role = "assistant" =>
              /\ buffer[j].tool_calls # <<>>
              /\ TurnLength(buffer, j) = Len(buffer[j].tool_calls)
              /\ \A n \in 1..Len(buffer[j].tool_calls) :
                    /\ buffer[j + n].tool_call_id = buffer[j].tool_calls[n].id
                    /\ buffer[j + n].content \in RecordContents(buffer[j].tool_calls[n])
        /\ buffer[j].role = "tool" => (j > 3 /\ buffer[j - 1].role \in {"assistant", "tool"})

\* C23: at every language-model invocation the conversation buffer is
\* well-formed: it starts with the system instruction and the user message,
\* and for every earlier tool turn it holds the assistant record of the
\* requests followed by exactly one tool record per requested invocation, in
\* request order, whose content is that invocation's summary_for_llm or its
\* error string; a record has a role, a content, tool calls and a tool call id
\* and never a campaign list.  The buffer is append-only.
C23_BufferWellFormed ==
    /\ [](pc = "awaiting_model_turn" =>
            /\ Len(messages) >= 2
            /\ messages[1] = Message("system", Some(<<SYSTEM_MESSAGE>>), <<>>, 0)
            /\ messages[2] = Message("user", Some(<<body.message.text>>), <<>>, 0)
            /\ Len(messages) >= 3 => messages[3].role = "assistant"
            /\ CompleteTurns(messages)
            /\ \A j \in 1..Len(messages) :
                  DOMAIN messages[j] = {"role", "content", "tool_calls", "tool_call_id"})
    /\ [][messages # <<>> =>
            (Len(messages') >= Len(messages)
               /\ SubSeq(messages', 1, Len(messages)) = messages)]_vars

\* C23 witness: the model is invoked with a buffer that holds a tool turn of
\* two invocations, of which one was captured and one failed, in request order.
C23_Witness ==
    /\ pc = "awaiting_model_turn" /\ Len(messages) = 5
    /\ Len(messages[3].tool_calls) = 2
    /\ messages[4].tool_call_id = 1 /\ messages[5].tool_call_id = 2
    /\ 4 \in FailedRecords /\ 5 \in CapturedRecords
    /\ Val(lastToolResult).campaigns # <<>>

\* C24: when the argument payload of a requested invocation is not valid JSON,
\* the invocation is still executed, with an empty argument object: its tool
\* record holds what the runner yields for no arguments; the turn is not
\* aborted: the next invocation of the turn is executed next, and after the
\* turn's last one the loop goes on (or, at the iteration cap, answers 200).
C24_MalformedArgumentsRunEmpty ==
    [][(pc = "executing_tools" /\ ~msg.tool_calls[k].arguments.valid) =>
         /\ toolRuns' = toolRuns + 1
         /\ \E faults \in FaultSets :
               LET out == getToolRunner(msg.tool_calls[k].name, EmptyArgs, baseFilters,
                                        Db(Store, faults))
               IN /\ messages' = Append(messages,
                                        Message("tool",
                                                Some(ToolRecordContent(msg.tool_calls[k].name, out)),
                                                <<>>, msg.tool_calls[k].id))
                  /\ lastToolResult' = (IF out.ok THEN Some(out.value) ELSE lastToolResult)
         /\ k < Len(msg.tool_calls) => (pc' = "executing_tools" /\ k' = k + 1)
         /\ k = Len(msg.tool_calls) =>
               \/ pc' = "awaiting_model_turn"
               \/ pc' = "done" /\ response'.status = 200 /\ i' = MAX_AGENT_ITERATIONS]_vars

\* C24 witness: the first invocation of a turn had a payload that does not
\* parse; it left the record of an empty result, the turn's second invocation
\* ran after it and returned campaigns, and the model was invoked again.
C24_Witness ==
    /\ pc = "done" /\ llmCalls = 2 /\ Len(messages) = 5
    /\ ~messages[3].tool_calls[1].arguments.valid
    /\ messages[3].tool_calls[1].arguments.object.query = Some("back")
    /\ messages[4].content = Some(<<"No campaigns found.">>)
    /\ 5 \in CapturedRecords
    /\ response.total > 0

----------------------------------------------------------------------------
(* The page and its chat panel: what the user sees of a chat request *)

\* bound of the environment: the messages a user submits in one session
MaxSubmits == 2

PanelMessage(role, content) == [role |-> role, content |-> content]

GREETING ==
    <<"Hello! I can help you explore marketing campaigns. Try asking me things like 'Show me campaigns with no fee offers' or 'What value props are most common on Instagram?'">>

\* the pills of the filter panel the user may click
PillValues ==
    [channel |-> {"email"}, value_prop |-> {}, sentiment |-> {"Premium"},
     visual_style |-> {}]

\* detectedFilters as a filter set: the record has no date_range
AsFilters(detected) ==
    [channel |-> detected.channel, value_prop |-> detected.value_prop,
     sentiment |-> detected.sentiment, visual_style |-> detected.visual_style,
     date_range |-> Absent]

\* what a tool turn may have left in detectedFilters
DetectedChannel == [NoDetectedFilters EXCEPT !.channel = Some(<<"facebook">>)]
DetectedWithEmptyList ==
    [NoDetectedFilters EXCEPT !.channel = Some(<<"instagram">>), !.sentiment = Some(<<>>)]

\* fetch itself rejects: no HTTP response at all
FetchRejected == [NoResponse EXCEPT !.error = "Failed to fetch"]

\* the ways POST /api/chat can end for a message the panel sends: a text of the
\* model or a fixed fallback, with or without detected filters; the loop ending
\* at the iteration cap, where finalAnswer is still ''; the catch block's 500
ChatReplies ==
    {OkResponse(answer, Absent, detected) :
        answer \in {<<"a">>},
        detected \in {NoDetectedFilters, DetectedChannel, DetectedWithEmptyList}}
    \cup {OkResponse(<<>>, Absent, DetectedChannel),
          ErrorResponse("model unavailable"),
          FetchRejected}

\* handleSubmit's guard: `if (!input.trim() || isLoading) return`
CanSubmit(input, loading) == trim(input) # <<>> /\ ~loading

\* the effect's updater: the response is not added twice in a row
AppendResponse(prev, text) ==
    IF /\ Len(prev) > 0
       /\ prev[Len(prev)].role = "assistant"
       /\ prev[Len(prev)].content = text
    THEN prev
    ELSE Append(prev, PanelMessage("assistant", text))

\* the effect on [llmResponse, isLoading]
ResponseEffect(prev, text, loading) ==
    IF text # <<>> /\ ~loading THEN AppendResponse(prev, text) ELSE prev

\* handleSubmit's catch block
ErrorNotice(message) == <<"Sorry, I encountered an error: ", message>>

\* faulty variant: the merge starts from the filters the request was sent with
MergeBaseAsSent(held, sentWith) == sentWith

\* setActiveFilters((prev) => ...): the updater gets the filters held when it runs
MergeBase(held, sentWith) == held

\* a pill click: the value is added to or removed from the field's list; an
\* emptied list is stored as undefined
TogglePillValue(current, field, value) ==
    LET list == IF IsPresent(current[field]) THEN Val(current[field]) ELSE <<>>
        newList == IF Includes(list, value)
                   THEN SelectSeq(list, LAMBDA v : v # value)
                   ELSE Append(list, value)
    IN [current EXCEPT ![field] = IF Len(newList) > 0 THEN Some(newList) ELSE Absent]

InitUi ==
    /\ pc = "page"
    /\ activeFilters = EmptyFilters
    /\ isLoading = FALSE
    /\ llmResponse = <<>>
    /\ chatMessages = <<PanelMessage("assistant", GREETING)>>
    /\ pending = <<>>
    /\ sent = 0
    /\ baseFilters = EmptyFilters
    /\ newFilters = EmptyFilters
    /\ merged = EmptyFilters
    /\ campaign = NoCampaign
    /\ filters = EmptyFilters
    /\ matched = FALSE
    /\ LoopIdle
    /\ ToolIdle
    /\ IngestIdle
    /\ PairIdle

UiFrame == UNCHANGED <<pc, baseFilters, filterVars, loopVars, toolVars, ingestVars, pairVars>>

\* FilterPanel's click handlers, through onFiltersChange={setActiveFilters}
TogglePill ==
    /\ pc = "page"
    /\ \E field \in ListFields : \E value \in PillValues[field] :
          activeFilters' = TogglePillValue(activeFilters, field, value)
    /\ UNCHANGED <<isLoading, llmResponse, chatMessages, pending, sent>>
    /\ UiFrame

\* handleReset
HandleReset ==
    /\ pc = "page"
    /\ activeFilters' = EmptyFilters
    /\ llmResponse' = <<>>
    /\ chatMessages' = ResponseEffect(chatMessages, llmResponse', isLoading)
    /\ UNCHANGED <<isLoading, pending, sent>>
    /\ UiFrame

\* handleSubmit up to its await, with handleQuery up to its fetch
HandleSubmit ==
    /\ pc = "page"
    /\ sent < MaxSubmits
    /\ \E input \in Texts :
          /\ CanSubmit(input, isLoading)
          /\ chatMessages' = Append(chatMessages, PanelMessage("user", trim(input)))
          /\ pending' = Append(pending, [message |-> trim(input),
                                         activeFilters |-> activeFilters,
                                         reply |-> Absent])
    /\ isLoading' = TRUE
    /\ llmResponse' = <<>>
    /\ sent' = sent + 1
    /\ UNCHANGED activeFilters
    /\ UiFrame

\* the server answers a request that is in flight, or the fetch fails
ChatReplyArrives ==
    /\ pc = "page"
    /\ \E n \in 1..Len(pending) : \E reply \in ChatReplies :
          /\ ~IsPresent(pending[n].reply)
          /\ pending' = [pending EXCEPT ![n].reply = Some(reply)]
    /\ UNCHANGED <<activeFilters, isLoading, llmResponse, chatMessages, sent>>
    /\ UiFrame

\* handleQuery after its fetch, on a response of status 200, and the effect
\* that follows the render
HandleQueryApplies ==
    /\ pc = "page"
    /\ pending # <<>>
    /\ IsPresent(Head(pending).reply)
    /\ LET data == Val(Head(pending).reply)
       IN /\ data.status = 200
          /\ llmResponse' = data.response
          /\ activeFilters' =
                (IF IsPresent(data.detectedFilters)
                 THEN mergeFilters(MergeBase(activeFilters, Head(pending).activeFilters),
                                   AsFilters(Val(data.detectedFilters)))
                 ELSE activeFilters)
          /\ isLoading' = FALSE
          /\ chatMessages' = ResponseEffect(chatMessages, llmResponse', isLoading')
    /\ pending' = Tail(pending)
    /\ UNCHANGED sent
    /\ UiFrame

\* handleQuery throws (the response is not ok, or fetch rejected): its finally
\* block ends the loading state and handleSubmit's catch adds an error notice
HandleQueryThrows ==
    /\ pc = "page"
    /\ pending # <<>>
    /\ IsPresent(Head(pending).reply)
    /\ LET data == Val(Head(pending).reply)
       IN /\ data.status # 200
          /\ chatMessages' =
                Append(ResponseEffect(chatMessages, llmResponse, FALSE),
                       PanelMessage("assistant",
                                    ErrorNotice(IF data.status = 0 THEN data.error
                                                ELSE "Failed to process query")))
    /\ isLoading' = FALSE
    /\ pending' = Tail(pending)
    /\ UNCHANGED <<activeFilters, llmResponse, sent>>
    /\ UiFrame

NextUi ==
    \/ TogglePill
    \/ HandleReset
    \/ HandleSubmit
    \/ ChatReplyArrives
    \/ HandleQueryApplies
    \/ HandleQueryThrows

SpecUi == InitUi /\ [][NextUi]_vars

----------------------------------------------------------------------------
(* Claims about the page *)

\* C29: when a chat response carrying detectedFilters D is applied, the active
\* filters become mergeFilters(F, D) for the filters F held at that moment, not
\* the filters the request was sent with: every field D does not name keeps the
\* value the pills gave it, also when it was changed while the request was in
\* flight; a response without detectedFilters, or a failed request, leaves the
\* active filters as they are.
C29_DetectedFiltersMergeIntoHeldFilters ==
    [][(pending # <<>> /\ pending' = Tail(pending)) =>
          LET data == Val(Head(pending).reply)
          IN IF data.status = 200 /\ IsPresent(data.detectedFilters)
             THEN LET D == Val(data.detectedFilters)
                  IN /\ activeFilters' = mergeFilters(activeFilters, AsFilters(D))
                     /\ \A field \in ListFields :
                           ~IsPresent(D[field]) =>
                               activeFilters'[field] = activeFilters[field]
                     /\ activeFilters'.date_range = activeFilters.date_range
             ELSE activeFilters' = activeFilters]_vars

\* C29 witness: the second request was sent with filters that hold the channel
\* detected by the first response next to the sentiment pill the user had set;
\* while it is in flight the user has changed a pill, and a response carrying
\* detected filters has arrived for it.
C29_Witness ==
    /\ sent = 2 /\ Len(pending) = 1
    /\ Head(pending).activeFilters.channel = Some(<<"facebook">>)
    /\ Head(pending).activeFilters.sentiment = Some(<<"Premium">>)
    /\ activeFilters.sentiment = Absent
    /\ activeFilters.channel = Some(<<"facebook", "email">>)
    /\ IsPresent(Head(pending).reply)
    /\ Val(Head(pending).reply).detectedFilters = Some(DetectedWithEmptyList)

\* C30: every message the user submitted is followed in the message list by an
\* assistant message once its request has ended, however the request ended, and
\* at most one request is in flight.
C30_EverySubmittedMessageIsAnswered ==
    /\ Len(pending) <= 1
    /\ \A n \in 1..Len(chatMessages) :
          chatMessages[n].role = "user" =>
              IF n < Len(chatMessages)
              THEN chatMessages[n + 1].role = "assistant"
              ELSE pending # <<>> /\ isLoading

----------------------------------------------------------------------------
(* Two chat requests processed concurrently: each POST call has its own       *)
(* locals; the calls share the module-level client and the store, and         *)
(* interleave at their awaits                                                 *)

\* what the model and the store do for one request, fixed in advance: one entry
\* per model invocation, with the faults met by each invocation it requests
Turn(kind, content, calls, faults) ==
    [kind |-> kind, content |-> content, calls |-> calls, faults |-> faults]

ChoiceOf(name) == CHOOSE choice \in ToolCallChoices : choice.name = name

ToolsTurn(names, faults) ==
    Turn("message", Absent, [j \in 1..Len(names) |-> ChoiceOf(names[j])], faults)

Scripts ==
    {<<Turn("message", Some(<<"a">>), <<>>, <<>>)>>,
     <<ToolsTurn(<<"filter_campaigns">>, <<{}>>), Turn("message", Absent, <<>>, <<>>)>>,
     <<ToolsTurn(<<"full_text_search", "filter_campaigns">>, <<{"query"}, {}>>),
       Turn("no_message", Absent, <<>>, <<>>)>>,
     <<ToolsTurn(<<"lookup_campaign">>, <<{}>>), Turn("error", Absent, <<>>, <<>>)>>,
     [n \in 1..MAX_AGENT_ITERATIONS |-> ToolsTurn(<<"filter_campaigns">>, <<{}>>)]}

PairBodies ==
    {b \in Bodies :
        \/ b.kind = "null"
        \/ b.kind = "object" /\ b.message.text \in {"", "instagram offers"}
                             /\ b.message.type = "string"}

\* the locals of a POST call that has not started
NewRequest(b, script) ==
    [pc |-> "received", body |-> b, script |-> script, baseFilters |-> EmptyFilters,
     messages |-> <<>>, i |-> 0, msg |-> NoCompletion, k |-> 0, finalAnswer |-> <<>>,
     lastToolResult |-> Absent, detectedFilters |-> NoDetectedFilters,
     response |-> NoResponse, llmCalls |-> 0, toolRuns |-> 0]

Ended(r) == r.pc \in {"done", "failed", "rejected"}

ValidBody(b) == b.kind = "object" /\ ~Falsy(b.message) /\ b.message.type = "string"

\* lines 10-19: the client is created by the first call that needs it
getOpenAIClient(client, keySet) == IF client = Null /\ keySet THEN "client" ELSE client

\* lines 30-45: a request up to its first await
ReceiveStep(r, client, keySet) ==
    IF r.body.kind # "object"
    THEN [r EXCEPT !.pc = "failed",
                   !.response = ErrorResponse(IF r.body.kind = "null"
                                              THEN "Cannot destructure property"
                                              ELSE "Unexpected token")]
    ELSE IF ~ValidBody(r.body)
    THEN [r EXCEPT !.pc = "rejected", !.response = BadRequestResponse]
    ELSE IF getOpenAIClient(client, keySet) = Null
    THEN [r EXCEPT !.pc = "failed",
                   !.response =
                       ErrorResponse("OPENAI_API_KEY environment variable is not set")]
    ELSE [r EXCEPT !.pc = "awaiting_model_turn",
                   !.baseFilters = (IF IsPresent(r.body.activeFilters)
                                    THEN Val(r.body.activeFilters)
                                    ELSE EmptyFilters),
                   !.messages =
                       << Message("system", Some(<<SYSTEM_MESSAGE>>), <<>>, 0),
                          Message("user", Some(<<r.body.message.text>>), <<>>, 0) >>]

\* line 40: the shared client after the request's first step
ClientAfter(r, client, keySet) ==
    IF r.pc = "received" /\ ValidBody(r.body) THEN getOpenAIClient(client, keySet)
    ELSE client

\* lines 53-79: the model's completion arrives
ModelStep(r) ==
    LET turn == r.script[r.llmCalls + 1]
        calls == [j \in 1..Len(turn.calls) |->
                     [id |-> r.toolRuns + j, name |-> turn.calls[j].name,
                      arguments |-> turn.calls[j].arguments]]
        called == [r EXCEPT !.llmCalls = r.llmCalls + 1,
                            !.msg = Completion(turn.kind, turn.content, calls)]
    IN CASE turn.kind = "error" ->
                [called EXCEPT !.pc = "failed", !.response = ErrorResponse("Connection error.")]
         [] turn.kind = "no_message" ->
                [called EXCEPT !.pc = "done", !.finalAnswer = NO_MESSAGE_ANSWER,
                               !.response = OkResponse(NO_MESSAGE_ANSWER, r.lastToolResult,
                                                       r.detectedFilters)]
         [] turn.kind = "message" /\ turn.calls = <<>> ->
                [called EXCEPT !.pc = "done", !.finalAnswer = FinalAnswerOf(turn.content),
                               !.response = OkResponse(FinalAnswerOf(turn.content),
                                                       r.lastToolResult, r.detectedFilters)]
         [] OTHER ->
                [called EXCEPT !.pc = "executing_tools", !.k = 1,
                               !.messages = Append(r.messages,
                                                   Message("assistant", turn.content, calls, 0))]

\* lines 81-132: the runner of the invocation under way returns or throws
ToolStep(r) ==
    LET tc == r.msg.tool_calls[r.k]
        faults == r.script[r.llmCalls].faults[r.k]
        after == InvocationEffect(tc,
                                  ToolOutcome[[name |-> tc.name, arguments |-> tc.arguments]]
                                             [r.baseFilters][faults],
                                  r.lastToolResult, r.detectedFilters, r.messages)
        ran == [r EXCEPT !.lastToolResult = after.lastToolResult,
                         !.detectedFilters = after.detectedFilters,
                         !.messages = after.messages,
                         !.toolRuns = r.toolRuns + 1]
    IN IF r.k < Len(r.msg.tool_calls)
       THEN [ran EXCEPT !.k = r.k + 1]
       ELSE IF LoopContinues(r.i + 1)
       THEN [ran EXCEPT !.k = 0, !.i = r.i + 1, !.pc = "awaiting_model_turn"]
       ELSE [ran EXCEPT !.k = 0, !.i = r.i + 1, !.pc = "done",
                        !.response = OkResponse(r.finalAnswer, after.lastToolResult,
                                                after.detectedFilters)]

\* one step of a POST call, from one await to the next
PostStep(r, client, keySet) ==
    CASE r.pc = "received" -> ReceiveStep(r, client, keySet)
      [] r.pc = "awaiting_model_turn" -> ModelStep(r)
      [] r.pc = "executing_tools" -> ToolStep(r)

\* the response of a request processed alone, from a cold start
RECURSIVE RunAlone(_, _, _)
RunAlone(r, client, keySet) ==
    IF Ended(r) THEN r.response
    ELSE RunAlone(PostStep(r, client, keySet), ClientAfter(r, client, keySet), keySet)

\* faulty variant: the captured result and the detected filters are
\* module-level, one copy for every call
SharedCaptures(all, self) ==
    [all[self] EXCEPT !.lastToolResult = all[1].lastToolResult,
                      !.detectedFilters = all[1].detectedFilters]

\* lines 38-49: the state a call works on is declared inside POST
RequestLocals(all, self) == all[self]

InitPair ==
    /\ pc = "pair"
    /\ requests \in [1..2 -> {NewRequest(b, script) : b \in PairBodies, script \in Scripts}]
    /\ openai = Null
    /\ supabase = Store
    /\ apiKeySet \in BOOLEAN
    /\ baseFilters = EmptyFilters
    /\ newFilters = EmptyFilters
    /\ merged = EmptyFilters
    /\ campaign = NoCampaign
    /\ filters = EmptyFilters
    /\ matched = FALSE
    /\ LoopLocalsIdle
    /\ ToolIdle
    /\ IngestIdle
    /\ UiIdle

PairFrame ==
    UNCHANGED <<pc, baseFilters, filterVars, loopVars, toolVars, ingestVars, uiVars, supabase>>

\* lines 30-45 of one of the two calls
RequestReceived ==
    /\ pc = "pair"
    /\ \E self \in 1..2 :
          /\ requests[self].pc = "received"
          /\ requests' = [requests EXCEPT
                             ![self] = ReceiveStep(RequestLocals(requests, self), openai,
                                                   apiKeySet)]
          /\ openai' = ClientAfter(requests[self], openai, apiKeySet)
    /\ PairFrame

\* lines 53-79 of one of the two calls
RequestModelTurn ==
    /\ pc = "pair"
    /\ \E self \in 1..2 :
          /\ requests[self].pc = "awaiting_model_turn"
          /\ requests' = [requests EXCEPT ![self] = ModelStep(RequestLocals(requests, self))]
    /\ UNCHANGED openai
    /\ PairFrame

\* lines 81-132 of one of the two calls
RequestToolCall ==
    /\ pc = "pair"
    /\ \E self \in 1..2 :
          /\ requests[self].pc = "executing_tools"
          /\ requests' = [requests EXCEPT ![self] = ToolStep(RequestLocals(requests, self))]
    /\ UNCHANGED openai
    /\ PairFrame

NextPair ==
    \/ RequestReceived
    \/ RequestModelTurn
    \/ RequestToolCall

SpecPair == InitPair /\ [][NextPair]_vars

----------------------------------------------------------------------------
(* Claims about concurrent chat requests *)

\* C21: under any interleaving of two chat requests, the response of a request
\* that has ended is the response the request gets when it is processed alone
\* with the same model and tool outcomes; a step of one request changes neither
\* the other request's buffer, captured result, detected filters or any other
\* local, nor the store.
C21_RequestsAreIndependent ==
    /\ [](pc = "pair" =>
            \A self \in 1..2 :
                Ended(requests[self]) =>
                    requests[self].response =
                        RunAlone(NewRequest(requests[self].body, requests[self].script),
                                 Null, apiKeySet))
    /\ [][pc = "pair" =>
            /\ supabase' = supabase
            /\ \A self \in 1..2 :
                  requests'[self] # requests[self] =>
                      \A other \in (1..2) \ {self} : requests'[other] = requests[other]]_vars

\* C21 witness: both requests have ended after their tool turns interleaved;
\* the first, sent with base filters, captured a result and detected filters,
\* the second ended at the iteration cap.
C21_Witness ==
    /\ pc = "pair"
    /\ requests[1].pc = "done" /\ requests[2].pc = "done"
    /\ IsPresent(requests[1].body.activeFilters)
    /\ requests[1].llmCalls = 2
    /\ IsPresent(requests[1].response.detectedFilters)
    /\ requests[2].llmCalls = MAX_AGENT_ITERATIONS
    /\ requests[2].response.response = <<>>
    /\ requests[1].response # requests[2].response

====
